---- MODULE Spec2Model ----
(***************************************************************************)
(* A model of the message board server: the binary codec of lib.rs, the   *)
(* file store and request handler of server.rs (MessageBoard), and the    *)
(* ingress / dispatcher / worker / egress pipeline of Server::mainloop.   *)
(*                                                                         *)
(* Data representation.                                                    *)
(*   - a byte is a number in 0..255, a file or a buffer a sequence of      *)
(*     bytes, a Rust iterator over bytes the sequence of bytes not yet     *)
(*     taken from it;                                                      *)
(*   - a u64 value is its 8 little-endian bytes (U64(n) for a small n):    *)
(*     ids are compared and stored, never added, so the tuple is exact     *)
(*     for every value a decoder can produce;                              *)
(*   - a length or count (u16, u32, `as usize`) is a number, saturated at  *)
(*     USIZE_SAT: every buffer of the model is far shorter, so a loop      *)
(*     over a saturated count fails and a take() of it takes everything,   *)
(*     as with the exact count;                                            *)
(*   - a String is the sequence of its UTF-8 bytes;                        *)
(*   - a Result is [ok |-> TRUE, val |-> v] or [ok |-> FALSE, err |-> e]; *)
(*     a decoder working on an iterator also gives `rest`, the iterator    *)
(*     after it.                                                           *)
(***************************************************************************)
EXTENDS Integers, Sequences, FiniteSets, TLC

(***************************************************************************)
(* lib.rs: constants                                                       *)
(***************************************************************************)
ENTRY_MAGIC_NUMBER == 4660
USER_MAGIC_NUMBER == 5232
ENTRY_FILE_VERSION == 0
USER_FILE_VERSION == 0
REQUEST_FORMAT_VERSION == 0
RESPONSE_FORMAT_VERSION == 0
ERROR == 255
MESSAGE == 0
ACCESS_GROUP == 1
GET_ENTRY == 0
ADD_ENTRY == 1
GET_USER == 32
ADD_USER == 33
INHERIT_BASE == 0
WHITE_BASE == 1
BLACK_BASE == 2

(***************************************************************************)
(* Bytes and integers                                                      *)
(***************************************************************************)
\* the largest count the model represents; larger ones are saturated to it
USIZE_SAT == 127 * 16777216 + 16777215

Pow256(i) == CASE i = 0 -> 1 [] i = 1 -> 256 [] i = 2 -> 65536 [] OTHER -> 16777216

\* n.to_le_bytes() for an integer of k bytes, 0 <= n < 2^31
to_le_bytes(n, k) == [i \in 1..k |-> IF i <= 4 THEN (n \div Pow256(i - 1)) % 256 ELSE 0]

\* a small number as a u64
U64(n) == to_le_bytes(n, 8)

ROOT_ID == U64(0)

\* uN::from_le_bytes(b) as a count (saturated at USIZE_SAT)
from_le_bytes(b) ==
    IF \/ \E i \in 5..Len(b) : b[i] # 0
       \/ (Len(b) >= 4 /\ b[4] >= 128)
    THEN USIZE_SAT
    ELSE (IF Len(b) >= 1 THEN b[1] ELSE 0)
       + (IF Len(b) >= 2 THEN b[2] * 256 ELSE 0)
       + (IF Len(b) >= 3 THEN b[3] * 65536 ELSE 0)
       + (IF Len(b) >= 4 THEN b[4] * 16777216 ELSE 0)

Ok(v) == [ok |-> TRUE, val |-> v]
Err(e) == [ok |-> FALSE, err |-> e]
OkRest(v, r) == [ok |-> TRUE, val |-> v, rest |-> r]

\* the iterator `d` after n items were taken from it
Drop(d, n) == SubSeq(d, n + 1, Len(d))
\* data_iter.take(n).collect(): at most n items, fewer when the iterator ends
Take(d, n) == SubSeq(d, 1, IF n < Len(d) THEN n ELSE Len(d))

\* vec.contains(&x)
Contains(vec, x) == \E i \in 1..Len(vec) : vec[i] = x

\* `let x = expr; ...`: expr is computed once, to the value v the rest works on
Let(x, Body(_)) == CHOOSE y \in {Body(v) : v \in {x}} : TRUE

\* `let x = expr?; ...`: an error is returned at once, else the function goes on
Try(r, Then(_)) == Let(r, LAMBDA v : IF v.ok THEN Then(v) ELSE v)

RECURSIVE Flatten(_)
\* the concatenation of a sequence of byte sequences
Flatten(ss) ==
    Let(ss, LAMBDA v : IF v = <<>> THEN <<>> ELSE Head(v) \o Flatten(Tail(v)))

(***************************************************************************)
(* lib.rs: read_u16, read_u32, read_u64                                    *)
(***************************************************************************)
\* read_u16 taking the first byte as the high one
read_u16_BigEndian(d) ==
    IF Len(d) < 2 THEN Err("InsufficientBytes")
    ELSE OkRest(from_le_bytes(<<d[2], d[1]>>), Drop(d, 2))

read_u16(d) ==
    IF Len(d) < 2 THEN Err("InsufficientBytes")
    ELSE OkRest(from_le_bytes(SubSeq(d, 1, 2)), Drop(d, 2))

read_u32(d) ==
    IF Len(d) < 4 THEN Err("InsufficientBytes")
    ELSE OkRest(from_le_bytes(SubSeq(d, 1, 4)), Drop(d, 4))

read_u64(d) ==
    IF Len(d) < 8 THEN Err("InsufficientBytes")
    ELSE OkRest(SubSeq(d, 1, 8), Drop(d, 8))

RECURSIVE read_u64s(_, _)
\* the loops `for _ in 0..n { vec.push(read_u64(data_iter)?) }`
read_u64s(d, n) ==
    IF n = 0 THEN OkRest(<<>>, d)
    ELSE Try(read_u64(d), LAMBDA r :
         Try(read_u64s(r.rest, n - 1), LAMBDA t :
         OkRest(<<r.val>> \o t.val, t.rest)))

\* String::from_utf8: whether the bytes are well-formed UTF-8
RECURSIVE IsUtf8(_)
IsUtf8(b) ==
    LET Cont(i) == Len(b) >= i /\ b[i] >= 128 /\ b[i] <= 191
        In(i, lo, hi) == Len(b) >= i /\ b[i] >= lo /\ b[i] <= hi
    IN  IF b = <<>> THEN TRUE
        ELSE IF b[1] <= 127 THEN IsUtf8(Drop(b, 1))
        ELSE IF b[1] >= 194 /\ b[1] <= 223 THEN Cont(2) /\ IsUtf8(Drop(b, 2))
        ELSE IF b[1] = 224 THEN In(2, 160, 191) /\ Cont(3) /\ IsUtf8(Drop(b, 3))
        ELSE IF b[1] = 237 THEN In(2, 128, 159) /\ Cont(3) /\ IsUtf8(Drop(b, 3))
        ELSE IF b[1] >= 225 /\ b[1] <= 239 THEN Cont(2) /\ Cont(3) /\ IsUtf8(Drop(b, 3))
        ELSE IF b[1] = 240 THEN In(2, 144, 191) /\ Cont(3) /\ Cont(4) /\ IsUtf8(Drop(b, 4))
        ELSE IF b[1] >= 241 /\ b[1] <= 243 THEN Cont(2) /\ Cont(3) /\ Cont(4) /\ IsUtf8(Drop(b, 4))
        ELSE IF b[1] = 244 THEN In(2, 128, 143) /\ Cont(3) /\ Cont(4) /\ IsUtf8(Drop(b, 4))
        ELSE FALSE

(***************************************************************************)
(* lib.rs: HeaderData                                                      *)
(***************************************************************************)
\* HeaderData::from_data_iter: val is <<header, entry_type>>
HeaderData_from_data_iter(d) ==
    Try(read_u16(d), LAMBDA magic :
    IF magic.val # ENTRY_MAGIC_NUMBER THEN Err("IncorrectMagicNum")
    ELSE IF Len(magic.rest) < 1 THEN Err("InsufficientBytes")
    ELSE IF magic.rest[1] # 0 THEN Err("UnsupportedVersion")
    ELSE IF Len(magic.rest) < 2 THEN Err("InsufficientBytes")
    ELSE Try(read_u64(Drop(magic.rest, 2)), LAMBDA parent :
         Try(read_u16(parent.rest), LAMBDA num_children :
         Try(read_u64s(num_children.rest, num_children.val), LAMBDA children :
         Try(read_u64(children.rest), LAMBDA author :
         OkRest(<<[version |-> magic.rest[1],
                   parent_id |-> parent.val,
                   children_ids |-> children.val,
                   author_id |-> author.val], magic.rest[2]>>,
                author.rest))))))

\* HeaderData::extend_data: the bytes it appends
HeaderData_extend_data(h, entry_type) ==
    to_le_bytes(ENTRY_MAGIC_NUMBER, 2) \o <<ENTRY_FILE_VERSION, entry_type>>
    \o h.parent_id
    \o to_le_bytes(Len(h.children_ids), 2)
    \o Flatten(h.children_ids)
    \o h.author_id

(***************************************************************************)
(* lib.rs: DefaultedIdSet                                                  *)
(***************************************************************************)
\* read_vec inside DefaultedIdSet::from_data_iter
read_vec(d) ==
    Try(read_u32(d), LAMBDA len : read_u64s(len.rest, len.val))

\* DefaultedIdSet::from_data_iter taking every base byte for that of Black
DefaultedIdSet_from_data_iter_AnyBase(d) ==
    IF Len(d) < 1 THEN Err("InsufficientBytes")
    ELSE Try(read_vec(Drop(d, 1)), LAMBDA w :
         OkRest([base |-> "Black", whitelist_ids |-> w.val], w.rest))

DefaultedIdSet_from_data_iter(d) ==
    IF Len(d) < 1 THEN Err("InsufficientBytes")
    ELSE IF d[1] = INHERIT_BASE THEN
        Try(read_vec(Drop(d, 1)), LAMBDA w :
        Try(read_vec(w.rest), LAMBDA b :
        OkRest([base |-> "Inherit", whitelist_ids |-> w.val, blacklist_ids |-> b.val],
               b.rest)))
    ELSE IF d[1] = WHITE_BASE THEN
        Try(read_vec(Drop(d, 1)), LAMBDA b :
        OkRest([base |-> "White", blacklist_ids |-> b.val], b.rest))
    ELSE IF d[1] = BLACK_BASE THEN
        Try(read_vec(Drop(d, 1)), LAMBDA w :
        OkRest([base |-> "Black", whitelist_ids |-> w.val], w.rest))
    ELSE Err("InvalidDiscriminant")

\* write_vec inside DefaultedIdSet::extend_data
write_vec(vec) == to_le_bytes(Len(vec), 4) \o Flatten(vec)

DefaultedIdSet_extend_data(s) ==
    CASE s.base = "Inherit" ->
            <<INHERIT_BASE>> \o write_vec(s.whitelist_ids) \o write_vec(s.blacklist_ids)
      [] s.base = "White" -> <<WHITE_BASE>> \o write_vec(s.blacklist_ids)
      [] s.base = "Black" -> <<BLACK_BASE>> \o write_vec(s.whitelist_ids)

\* contains where an id in both lists of an Inherit set counts as blacklisted
DefaultedIdSet_contains_BlacklistWins(s, id) ==
    CASE s.base = "Inherit" ->
            IF Contains(s.blacklist_ids, id) THEN [some |-> FALSE]
            ELSE IF Contains(s.whitelist_ids, id) THEN [some |-> TRUE]
            ELSE [none |-> TRUE]
      [] s.base = "White" -> [some |-> ~Contains(s.blacklist_ids, id)]
      [] s.base = "Black" -> [some |-> Contains(s.whitelist_ids, id)]

\* DefaultedIdSet::contains: None as [none |-> TRUE], Some(b) as [some |-> b]
DefaultedIdSet_contains(s, id) ==
    CASE s.base = "Inherit" ->
            LET whitelisted == Contains(s.whitelist_ids, id)
                blacklisted == Contains(s.blacklist_ids, id)
            IN  IF whitelisted /\ ~blacklisted THEN [some |-> TRUE]
                ELSE IF ~whitelisted /\ blacklisted THEN [some |-> FALSE]
                ELSE [none |-> TRUE]
      [] s.base = "White" -> [some |-> ~Contains(s.blacklist_ids, id)]
      [] s.base = "Black" -> [some |-> Contains(s.whitelist_ids, id)]

(***************************************************************************)
(* lib.rs: EntryData, Entry                                                *)
(***************************************************************************)
EntryData_from_data_iter(d, entry_type) ==
    IF entry_type = MESSAGE THEN
        Try(read_u64(d), LAMBDA timestamp :
        Try(read_u32(timestamp.rest), LAMBDA message_size :
        Let(Take(message_size.rest, message_size.val), LAMBDA bytes :
        IF ~IsUtf8(bytes) THEN Err("StringError")
        ELSE OkRest([type |-> "Message", timestamp |-> timestamp.val, message |-> bytes],
                    Drop(message_size.rest, Len(bytes))))))
    ELSE IF entry_type = ACCESS_GROUP THEN
        Try(read_u32(d), LAMBDA name_len :
        Let(Take(name_len.rest, name_len.val), LAMBDA bytes :
        IF ~IsUtf8(bytes) THEN Err("StringError")
        ELSE Try(DefaultedIdSet_from_data_iter(Drop(name_len.rest, Len(bytes))),
                 LAMBDA write_perms :
             Try(DefaultedIdSet_from_data_iter(write_perms.rest), LAMBDA read_perms :
             OkRest([type |-> "AccessGroup", name |-> bytes,
                     write_perms |-> write_perms.val, read_perms |-> read_perms.val],
                    read_perms.rest)))))
    ELSE Err("InvalidDiscriminant")

\* a discriminant that does not tell the two variants apart
EntryData_get_discriminant_Message(e) == MESSAGE

EntryData_get_discriminant(e) == IF e.type = "Message" THEN MESSAGE ELSE ACCESS_GROUP

EntryData_extend_data(e) ==
    IF e.type = "Message"
    THEN e.timestamp \o to_le_bytes(Len(e.message), 4) \o e.message
    ELSE to_le_bytes(Len(e.name), 4) \o e.name
         \o DefaultedIdSet_extend_data(e.write_perms)
         \o DefaultedIdSet_extend_data(e.read_perms)

Entry_from_data_iter(d) ==
    Try(HeaderData_from_data_iter(d), LAMBDA h :
    Try(EntryData_from_data_iter(h.rest, h.val[2]), LAMBDA e :
    OkRest([header_data |-> h.val[1], entry_data |-> e.val], e.rest)))

\* Entry::from_data: what is left of the data after the entry is dropped
Entry_from_data(data) == Try(Entry_from_data_iter(data), LAMBDA e : Ok(e.val))

Entry_into_data(entry) ==
    HeaderData_extend_data(entry.header_data, EntryData_get_discriminant(entry.entry_data))
    \o EntryData_extend_data(entry.entry_data)

(***************************************************************************)
(* lib.rs: UserData                                                        *)
(***************************************************************************)
UserData_from_data_iter(d) ==
    Try(read_u16(d), LAMBDA magic :
    IF magic.val # USER_MAGIC_NUMBER THEN Err("IncorrectMagicNum")
    ELSE IF Len(magic.rest) < 1 THEN Err("InsufficientBytes")
    ELSE IF magic.rest[1] # 0 THEN Err("UnsupportedVersion")
    ELSE Try(read_u32(Drop(magic.rest, 1)), LAMBDA num_entries :
         Try(read_u64s(num_entries.rest, num_entries.val), LAMBDA ids :
         OkRest([entry_ids |-> ids.val], ids.rest))))

UserData_from_data(data) == Try(UserData_from_data_iter(data), LAMBDA u : Ok(u.val))

UserData_into_data(user) ==
    to_le_bytes(USER_MAGIC_NUMBER, 2) \o <<USER_FILE_VERSION>>
    \o to_le_bytes(Len(user.entry_ids), 4) \o Flatten(user.entry_ids)

(***************************************************************************)
(* lib.rs: BoardRequest, BoardResponse                                     *)
(***************************************************************************)
BoardRequest_from_data(data) ==
    IF Len(data) < 1 THEN Err("InsufficientBytes")
    ELSE IF data[1] # 0 THEN Err("UnsupportedVersion")
    ELSE IF Len(data) < 2 THEN Err("InsufficientBytes")
    ELSE IF data[2] = GET_ENTRY THEN
        Try(read_u64(Drop(data, 2)), LAMBDA user_id :
        Try(read_u64(user_id.rest), LAMBDA entry_id :
        Ok([type |-> "GetEntry", user_id |-> user_id.val, entry_id |-> entry_id.val])))
    ELSE IF data[2] = ADD_ENTRY THEN
        Try(read_u64(Drop(data, 2)), LAMBDA user_id :
        Try(Entry_from_data_iter(user_id.rest), LAMBDA entry :
        Ok([type |-> "AddEntry", user_id |-> user_id.val, entry |-> entry.val])))
    ELSE IF data[2] = GET_USER THEN
        Try(read_u64(Drop(data, 2)), LAMBDA user_id :
        Ok([type |-> "GetUser", user_id |-> user_id.val]))
    ELSE IF data[2] = ADD_USER THEN Ok([type |-> "AddUser"])
    ELSE Err("InvalidDiscriminant")

\* BoardRequest::into_data without the version byte
BoardRequest_into_data_NoVersion(req) ==
    CASE req.type = "GetEntry" -> <<GET_ENTRY>> \o req.user_id \o req.entry_id
      [] req.type = "AddEntry" -> <<ADD_ENTRY>> \o req.user_id \o Entry_into_data(req.entry)
      [] req.type = "GetUser" -> <<GET_USER>> \o req.user_id
      [] req.type = "AddUser" -> <<ADD_USER>>

BoardRequest_into_data(req) ==
    <<REQUEST_FORMAT_VERSION>> \o
    CASE req.type = "GetEntry" -> <<GET_ENTRY>> \o req.user_id \o req.entry_id
      [] req.type = "AddEntry" -> <<ADD_ENTRY>> \o req.user_id \o Entry_into_data(req.entry)
      [] req.type = "GetUser" -> <<GET_USER>> \o req.user_id
      [] req.type = "AddUser" -> <<ADD_USER>>

BoardResponse_from_data(data) ==
    IF Len(data) < 1 THEN Err("InsufficientBytes")
    ELSE IF data[1] # 0 THEN Err("UnsupportedVersion")
    ELSE IF Len(data) < 2 THEN Err("InsufficientBytes")
    ELSE IF data[2] = GET_ENTRY THEN
        Try(Entry_from_data_iter(Drop(data, 2)), LAMBDA entry :
        Ok([type |-> "GetEntry", entry |-> entry.val]))
    ELSE IF data[2] = ADD_ENTRY THEN
        Try(read_u64(Drop(data, 2)), LAMBDA entry_id :
        Ok([type |-> "AddEntry", entry_id |-> entry_id.val]))
    ELSE IF data[2] = GET_USER THEN
        Try(UserData_from_data_iter(Drop(data, 2)), LAMBDA user :
        Ok([type |-> "GetUser", user |-> user.val]))
    ELSE IF data[2] = ADD_USER THEN
        Try(read_u64(Drop(data, 2)), LAMBDA user_id :
        Ok([type |-> "AddUser", user_id |-> user_id.val]))
    ELSE IF data[2] = ERROR THEN Err("InternalError")
    ELSE Err("InvalidDiscriminant")

\* the variants of DataError
DataErrors ==
    {"IncorrectMagicNum", "InsufficientBytes", "InvalidDiscriminant", "StringError",
     "UnsupportedVersion", "DoesNotExist", "AlreadyExists", "InsufficientPerms",
     "BadCredentials", "MalformedRoot", "NonChild", "InternalError", "OOBUsizeConversion"}

\* BoardResponse::into_data with a byte of its own for each error kind
BoardResponse_into_data_TypedError(val) ==
    <<RESPONSE_FORMAT_VERSION>> \o
    IF ~val.ok THEN (IF val.err = "InternalError" THEN <<ERROR>> ELSE <<ERROR - 1>>)
    ELSE CASE val.val.type = "GetEntry" -> <<GET_ENTRY>> \o Entry_into_data(val.val.entry)
           [] val.val.type = "AddEntry" -> <<ADD_ENTRY>> \o val.val.entry_id
           [] val.val.type = "GetUser" -> <<GET_USER>> \o UserData_into_data(val.val.user)
           [] val.val.type = "AddUser" -> <<ADD_USER>> \o val.val.user_id

\* BoardResponse::into_data of a Result: every error is the one ERROR byte
BoardResponse_into_data(val) ==
    <<RESPONSE_FORMAT_VERSION>> \o
    IF ~val.ok THEN <<ERROR>>
    ELSE CASE val.val.type = "GetEntry" -> <<GET_ENTRY>> \o Entry_into_data(val.val.entry)
           [] val.val.type = "AddEntry" -> <<ADD_ENTRY>> \o val.val.entry_id
           [] val.val.type = "GetUser" -> <<GET_USER>> \o UserData_into_data(val.val.user)
           [] val.val.type = "AddUser" -> <<ADD_USER>> \o val.val.user_id

(***************************************************************************)
(* State                                                                   *)
(***************************************************************************)
VARIABLES
    store,       \* the file directory: [entries, users, user_list]
    perm_field,  \* which stored set has_access_perm's pattern binds (see AccessTriple)
    request,     \* the request handle_request ran last ("none" before the first)
    response,    \* what it returned
    before       \* the store when it was called

\* a call of has_access_perm in progress: its arguments and its locals
VARIABLES walk

VARIABLES
    call,        \* a function of lib.rs or of the store applied to its arguments,
                 \* with what it returned ("none" before the first)
    workers      \* handler threads running handle_request concurrently, each at a
                 \* statement of its own: worker -> [pc, request, locals]

\* the server: connections, the three threads of mainloop and the handlers
VARIABLES
    client_id_map,    \* the ids of the registered connections
    next_client_id,
    inbound,          \* id -> what the peer has written and the server not read:
                      \* the writes (see ChunkBytes) and the bytes read of the first
    outbound,         \* id -> the write_all calls of the server, in order
    client_pc,        \* id -> where the peer is in send_request
    clients_read,     \* ingress thread
    read_id_set,
    ingress_pc,       \* its position: [at, idx, request_size]
    incoming_queue,   \* channel ingress -> dispatcher
    handler_clients,  \* dispatcher thread
    num_active,
    handler_rx,       \* channel dispatcher -> handler, one per handler
    response_rx,      \* channel handlers -> dispatcher
    outgoing_queue,   \* channel dispatcher -> egress
    clients_write,    \* egress thread
    unresolved_messages,
    received,         \* id -> the number of frames the ingress thread has read
    ingress_log       \* the last read of the ingress thread: the stream it read
                      \* from, the bytes it took, the slice it had decoded

board_vars == <<perm_field, request, response, before>>
call_vars == <<call, workers>>
server_vars ==
    <<client_id_map, next_client_id, inbound, outbound, client_pc, clients_read,
      read_id_set, ingress_pc, incoming_queue, handler_clients, num_active, handler_rx,
      response_rx, outgoing_queue, clients_write, unresolved_messages, received,
      ingress_log>>
vars == <<store, board_vars, walk, call_vars, server_vars>>

(***************************************************************************)
(* server.rs: MessageBoard, the file store.  `s` is the directory:         *)
(*   s.entries    entry id -> bytes of entries/<id>  (the files that exist)*)
(*   s.users      user id  -> bytes of users/<id>                          *)
(*   s.user_list  the bytes of user_list                                   *)
(* An operation that writes gives [res |-> Result, store |-> directory].   *)
(***************************************************************************)
File(f, id, bytes) == [k \in DOMAIN f \cup {id} |-> IF k = id THEN bytes ELSE f[k]]

get_entry_data_iter(s, entry_id) ==
    IF entry_id \in DOMAIN s.entries THEN Ok(s.entries[entry_id]) ELSE Err("DoesNotExist")

get_user(s, user_id) ==
    IF user_id \notin DOMAIN s.users THEN Err("DoesNotExist")
    ELSE Try(UserData_from_data_iter(s.users[user_id]), LAMBDA u : Ok(u.val))

\* write_entry without the test for an existing file
write_entry_Overwriting(s, entry_id, entry) ==
    [res |-> Ok("unit"),
     store |-> [s EXCEPT !.entries = File(s.entries, entry_id, Entry_into_data(entry))]]

write_entry(s, entry_id, entry) ==
    IF entry_id \in DOMAIN s.entries
    THEN [res |-> Err("AlreadyExists"), store |-> s]
    ELSE [res |-> Ok("unit"),
          store |-> [s EXCEPT !.entries = File(s.entries, entry_id, Entry_into_data(entry))]]

force_write_entry(s, entry_id, entry) ==
    [res |-> Ok("unit"),
     store |-> [s EXCEPT !.entries = File(s.entries, entry_id, Entry_into_data(entry))]]

write_user_data(s, user_id, data) ==
    IF user_id \notin DOMAIN s.users
    THEN [res |-> Err("DoesNotExist"), store |-> s]
    ELSE [res |-> Ok("unit"),
          store |-> [s EXCEPT !.users = File(s.users, user_id, UserData_into_data(data))]]

get_user_list(s) ==
    IF Len(s.user_list) % 8 # 0 THEN Err("InsufficientBytes")
    ELSE Ok([i \in 1..(Len(s.user_list) \div 8) |-> SubSeq(s.user_list, 8 * i - 7, 8 * i)])

get_entry(s, entry_id) ==
    Try(get_entry_data_iter(s, entry_id), LAMBDA it :
    Try(Entry_from_data_iter(it.val), LAMBDA e : Ok(e.val)))

add_entry(s, user_id, entry_id, entry) ==
    Let(write_entry(s, entry_id, entry), LAMBDA w :
    IF ~w.res.ok THEN w
    ELSE Let(get_user(w.store, user_id), LAMBDA user_data :
         IF ~user_data.ok THEN [res |-> user_data, store |-> w.store]
         ELSE write_user_data(w.store, user_id,
                              [entry_ids |-> Append(user_data.val.entry_ids, entry_id)])))

(***************************************************************************)
(* server.rs: MessageBoard::has_access_perm                                *)
(*                                                                         *)
(* The function binds an access group's data with the pattern              *)
(*   EntryData::AccessGroup {name: _, access_base, whitelist_ids,          *)
(*                           blacklist_ids}                                *)
(* a single permission triple, and takes no read/write kind.  lib.rs       *)
(* stores two sets per group, write_perms and read_perms.  Which of the    *)
(* two the triple stands for is not decided by the sources; perm_field     *)
(* leaves it open, and has_access_perm reads that one set for every        *)
(* request type.                                                           *)
(***************************************************************************)
AccessTriple(group) ==
    Let(IF perm_field = "write_perms" THEN group.write_perms ELSE group.read_perms,
        LAMBDA set :
    [access_base |-> set.base,
     whitelist_ids |-> IF set.base = "White" THEN <<>> ELSE set.whitelist_ids,
     blacklist_ids |-> IF set.base = "Black" THEN <<>> ELSE set.blacklist_ids])

\* the function's locals on entry to `loop`, or its result when it returns before
WalkStart(s, user_id, entry_id) ==
    Let(get_entry_data_iter(s, entry_id), LAMBDA it :
    IF ~it.ok THEN [done |-> TRUE, result |-> it]
    ELSE Let(HeaderData_from_data_iter(it.val), LAMBDA h :
         IF ~h.ok THEN [done |-> TRUE, result |-> Err(h.err)]
         ELSE [done |-> FALSE, data_iter |-> h.rest, header |-> h.val[1],
               entry_type |-> h.val[2], current_id |-> entry_id]))

\* the tail of one iteration: the root test and the step to the parent.  The
\* parent's iterator is a new `let mut data_iter` that lives to the end of the loop
\* body: only its header is kept, and `data_iter` of the next iteration is again
\* the iterator opened on the target entry (w.data_iter, passed as `outer`).
WalkToParent(s, w, outer) ==
    IF w.current_id = ROOT_ID THEN [done |-> TRUE, result |-> Ok(FALSE)]
    ELSE Let(get_entry_data_iter(s, w.header.parent_id), LAMBDA it :
         IF ~it.ok THEN [done |-> TRUE, result |-> it]
         ELSE Let(HeaderData_from_data_iter(it.val), LAMBDA h :
              IF ~h.ok THEN [done |-> TRUE, result |-> Err(h.err)]
              ELSE [done |-> FALSE, data_iter |-> outer, header |-> h.val[1],
                    entry_type |-> h.val[2], current_id |-> w.header.parent_id]))

\* the decision of one access group, or the step to the parent
WalkDecide(s, user_id, w, t, outer) ==
    IF Contains(t.whitelist_ids, user_id) THEN [done |-> TRUE, result |-> Ok(TRUE)]
    ELSE IF Contains(t.blacklist_ids, user_id) THEN [done |-> TRUE, result |-> Ok(FALSE)]
    ELSE IF t.access_base = "White" THEN [done |-> TRUE, result |-> Ok(TRUE)]
    ELSE IF t.access_base = "Black" THEN [done |-> TRUE, result |-> Ok(FALSE)]
    ELSE WalkToParent(s, w, outer)

\* one iteration of `loop`
WalkIter(s, user_id, w) ==
    IF w.entry_type = ACCESS_GROUP THEN
        Let(EntryData_from_data_iter(w.data_iter, w.entry_type), LAMBDA g :
        IF ~g.ok THEN [done |-> TRUE, result |-> Err(g.err)]
        ELSE WalkDecide(s, user_id, w, AccessTriple(g.val), g.rest))
    ELSE WalkToParent(s, w, w.data_iter)

RECURSIVE WalkLoop(_, _, _, _)
\* `loop { ... }` run for at most n iterations; "NoReturn" when it is still running
WalkLoop(s, user_id, w, n) ==
    IF w.done THEN w.result
    ELSE IF n = 0 THEN Err("NoReturn")
    ELSE Let(WalkIter(s, user_id, w), LAMBDA next : WalkLoop(s, user_id, next, n - 1))

\* On a store without a cycle of parents the loop visits an entry once, so it runs
\* at most as many iterations as there are entry files.
has_access_perm(s, user_id, entry_id) ==
    Let(WalkStart(s, user_id, entry_id), LAMBDA w :
        WalkLoop(s, user_id, w, Cardinality(DOMAIN s.entries) + 1))

(***************************************************************************)
(* server.rs: MessageBoard::add_user, handle_request                       *)
(***************************************************************************)
\* std::fs::File::open: the file, opened read-only, positioned at its start
File_open(bytes) == [bytes |-> bytes, writable |-> FALSE]

\* write_all on an open file: an error on a file not opened for writing, else the
\* file with `data` written at its start
File_write_all(f, data) ==
    IF ~f.writable THEN Err("io")
    ELSE Ok(data \o Drop(f.bytes, Len(data)))

\* File::create makes the user file empty, also when it exists
add_user(s, new_user_id) ==
    Let(File_write_all(File_open(s.user_list), new_user_id), LAMBDA written :
    IF ~written.ok THEN [res |-> Err("InternalError"), store |-> s]
    ELSE [res |-> Ok("unit"),
          store |-> [s EXCEPT !.user_list = written.val,
                              !.users = File(s.users, new_user_id, <<>>)]])

GetEntryRequest(user_id, entry_id) ==
    [type |-> "GetEntry", user_id |-> user_id, entry_id |-> entry_id]
AddEntryRequest(user_id, entry_id, entry) ==
    [type |-> "AddEntry", user_id |-> user_id, entry_id |-> entry_id, entry |-> entry]
GetUserRequest(user_id) == [type |-> "GetUser", user_id |-> user_id]
AddUserRequest(user_id) == [type |-> "AddUser", user_id |-> user_id]

\* a variant of CheckPerm that goes on when the resolver denies
CheckPerm_IgnoringDeny(has_perm, s, Granted) ==
    Let(has_perm, LAMBDA perm : IF ~perm.ok THEN [res |-> perm, store |-> s] ELSE Granted)

\* `if !board.has_access_perm(user_id, parent_id)? { return Err(InsufficientPerms) }`
CheckPerm(has_perm, s, Granted) ==
    Let(has_perm, LAMBDA perm :
    IF ~perm.ok THEN [res |-> perm, store |-> s]
    ELSE IF ~perm.val THEN [res |-> Err("InsufficientPerms"), store |-> s]
    ELSE Granted)

\* a variant of handle_GetEntry that asks the resolver for the author too
handle_GetEntry_NoBypass(s, req) ==
    Let(get_entry(s, req.entry_id), LAMBDA entry :
    IF ~entry.ok THEN [res |-> entry, store |-> s]
    ELSE CheckPerm(has_access_perm(s, req.user_id, entry.val.header_data.parent_id), s,
                   [res |-> Ok([type |-> "GetEntry", entry |-> entry.val]), store |-> s]))

handle_GetEntry(s, req) ==
    Let(get_entry(s, req.entry_id), LAMBDA entry :
    IF ~entry.ok THEN [res |-> entry, store |-> s]
    ELSE IF entry.val.header_data.author_id = req.user_id
         THEN [res |-> Ok([type |-> "GetEntry", entry |-> entry.val]), store |-> s]
         ELSE CheckPerm(has_access_perm(s, req.user_id, entry.val.header_data.parent_id), s,
                        [res |-> Ok([type |-> "GetEntry", entry |-> entry.val]),
                         store |-> s]))

\* AddEntry without the call of has_access_perm
handle_AddEntry_Unchecked(s, req) ==
    Let(add_entry(s, req.user_id, req.entry_id, req.entry), LAMBDA a :
    IF ~a.res.ok THEN a
    ELSE [res |-> Ok([type |-> "AddEntry"]), store |-> a.store])

\* a variant of handle_AddEntry that writes the entry before it asks the resolver
handle_AddEntry_WriteFirst(s, req) ==
    Let(add_entry(s, req.user_id, req.entry_id, req.entry), LAMBDA a :
    CheckPerm(has_access_perm(s, req.user_id, req.entry.header_data.parent_id), a.store,
              IF ~a.res.ok THEN a
              ELSE [res |-> Ok([type |-> "AddEntry"]), store |-> a.store]))

handle_AddEntry(s, req) ==
    CheckPerm(has_access_perm(s, req.user_id, req.entry.header_data.parent_id), s,
              Let(add_entry(s, req.user_id, req.entry_id, req.entry), LAMBDA a :
                  IF ~a.res.ok THEN a
                  ELSE [res |-> Ok([type |-> "AddEntry"]), store |-> a.store]))

handle_GetUser(s, req) ==
    Let(get_user(s, req.user_id), LAMBDA user :
    IF ~user.ok THEN [res |-> user, store |-> s]
    ELSE [res |-> Ok([type |-> "GetUser", user |-> user.val]), store |-> s])

handle_AddUser(s, req) ==
    Let(get_user_list(s), LAMBDA users :
    IF ~users.ok THEN [res |-> users, store |-> s]
    ELSE IF Contains(users.val, req.user_id) THEN [res |-> Err("AlreadyExists"), store |-> s]
    ELSE Let(add_user(s, req.user_id), LAMBDA a :
         IF ~a.res.ok THEN a ELSE [res |-> Ok([type |-> "AddUser"]), store |-> a.store]))

handle_request(s, req) ==
    CASE req.type = "GetEntry" -> handle_GetEntry(s, req)
      [] req.type = "AddEntry" -> handle_AddEntry(s, req)
      [] req.type = "GetUser" -> handle_GetUser(s, req)
      [] req.type = "AddUser" -> handle_AddUser(s, req)

(***************************************************************************)
(* The request handler on a store: bounds and inputs                       *)
(***************************************************************************)
\* users 1..NumUsers have a user file and are in user_list
NumUsers == 2
\* AddEntry requests name entry ids 1..MaxEntryId
MaxEntryId == 2

UserIds == {U64(n) : n \in 1..NumUsers}
EntryIds == {U64(n) : n \in 0..MaxEntryId}

White(blacklist) == [base |-> "White", blacklist_ids |-> blacklist]
Black(whitelist) == [base |-> "Black", whitelist_ids |-> whitelist]
Inherit(whitelist, blacklist) ==
    [base |-> "Inherit", whitelist_ids |-> whitelist, blacklist_ids |-> blacklist]

Header(parent_id, children_ids, author_id) ==
    [version |-> ENTRY_FILE_VERSION, parent_id |-> parent_id,
     children_ids |-> children_ids, author_id |-> author_id]

Message(timestamp, text) == [type |-> "Message", timestamp |-> timestamp, message |-> text]
AccessGroup(name, write_perms, read_perms) ==
    [type |-> "AccessGroup", name |-> name, write_perms |-> write_perms,
     read_perms |-> read_perms]

\* the payloads a client submits: a short message; a message whose timestamp and
\* text, read as an access group, are a name of 8 bytes and two White sets with
\* empty lists; a group that defers to its ancestors; a group that admits user 2
EntryDatas ==
    { Message(U64(1), <<104, 105>>),
      Message(U64(8), <<1, 0, 0, 0, 0, 1, 0, 0, 0, 0>>),
      AccessGroup(<<103>>, Inherit(<<>>, <<>>), Inherit(<<>>, <<>>)),
      AccessGroup(<<104>>, Black(<<U64(2)>>), Black(<<U64(2)>>)) }

\* the (write_perms, read_perms) of the root entry
RootPerms ==
    { <<White(<<>>), White(<<>>)>>,
      <<Black(<<U64(1)>>), White(<<>>)>>,
      <<White(<<>>), Black(<<U64(1)>>)>>,
      <<Black(<<U64(1)>>), Black(<<U64(1)>>)>>,
      <<Inherit(<<>>, <<>>), Inherit(<<>>, <<>>)>> }

RootEntry(perms, children_ids) ==
    [header_data |-> Header(ROOT_ID, children_ids, U64(0)),
     entry_data |-> AccessGroup(<<114>>, perms[1], perms[2])]

UserFiles(ids) == [u \in UserIds |-> UserData_into_data([entry_ids |-> ids[u]])]
UserList == Flatten([n \in 1..NumUsers |-> U64(n)])

\* a store holding the root alone
RootOnly(perms) ==
    [entries |-> [e \in {ROOT_ID} |-> Entry_into_data(RootEntry(perms, <<>>))],
     users |-> UserFiles([u \in UserIds |-> <<>>]),
     user_list |-> UserList]

\* a store set up with a chain: group 1 (no lists, inheriting) under the root,
\* written by user 1, and message 2 under group 1, written by user 2
Chain(perms) ==
    [entries |->
        [e \in {ROOT_ID, U64(1), U64(2)} |->
            IF e = ROOT_ID THEN Entry_into_data(RootEntry(perms, <<U64(1)>>))
            ELSE IF e = U64(1) THEN
                Entry_into_data([header_data |-> Header(ROOT_ID, <<U64(2)>>, U64(1)),
                                 entry_data |-> AccessGroup(<<103>>, Inherit(<<>>, <<>>),
                                                            Inherit(<<>>, <<>>))])
            ELSE Entry_into_data([header_data |-> Header(U64(1), <<>>, U64(2)),
                                  entry_data |-> Message(U64(1), <<104, 105>>)])],
     users |-> UserFiles([u \in UserIds |->
                  IF u = U64(1) THEN <<U64(1)>> ELSE IF u = U64(2) THEN <<U64(2)>> ELSE <<>>]),
     user_list |-> UserList]

InitStores == {RootOnly(p) : p \in RootPerms} \cup {Chain(p) : p \in RootPerms}

(***************************************************************************)
(* server.rs: Server and the threads of mainloop                           *)
(***************************************************************************)
\* `let num_threads = 4`
num_threads == 4
Handlers == 0..(num_threads - 1)
\* Option::None of a connection id
None == 0 - 1

\* connections the listener accepts
MaxClients == 2
Conns == 0..(MaxClients - 1)

RECURSIVE NextFreeId(_, _)
\* `while client_id_map.contains_key(&next_client_id) {next_client_id += 1;}`
NextFreeId(map, id) == IF id \in map THEN NextFreeId(map, id + 1) ELSE id

\* client.write_all(&BoardResponseData::into_data(message)): the bytes of one
\* write on the connection, kept with the message they were made from
\* (on a connection that was reset write_all is an Err, which `let _ =` drops)
TcpStream_write_all(out, id, message) ==
    IF client_pc[id] \in {"reset", "aborted"} THEN out
    ELSE [out EXCEPT ![id] = Append(@, [message |-> message,
                                        bytes |-> BoardResponse_into_data(message)])]

RECURSIVE EgressWrite_DroppingUnknown(_, _, _)
\* the egress loops without the push to unresolved_messages
EgressWrite_DroppingUnknown(out, messages, clients) ==
    IF messages = <<>> THEN [outbound |-> out, unresolved |-> <<>>]
    ELSE Let(Head(messages), LAMBDA m :
         EgressWrite_DroppingUnknown(
             IF m[1] \in clients THEN TcpStream_write_all(out, m[1], m[2]) ELSE out,
             Tail(messages), clients))

RECURSIVE EgressWrite_NewestFirst(_, _, _)
\* the egress loops taking the messages from the newest to the oldest
EgressWrite_NewestFirst(out, messages, clients) ==
    IF messages = <<>> THEN [outbound |-> out, unresolved |-> <<>>]
    ELSE Let(messages[Len(messages)], LAMBDA m :
         Let(SubSeq(messages, 1, Len(messages) - 1), LAMBDA older :
         IF m[1] \in clients
         THEN EgressWrite_NewestFirst(TcpStream_write_all(out, m[1], m[2]), older, clients)
         ELSE Let(EgressWrite_NewestFirst(out, older, clients), LAMBDA r :
              [outbound |-> r.outbound, unresolved |-> <<m>> \o r.unresolved])))

RECURSIVE EgressWrite(_, _, _)
\* the egress thread's loops over (id, message): a message whose id is in
\* `clients` is written, the others are the ones left over
EgressWrite(out, messages, clients) ==
    IF messages = <<>> THEN [outbound |-> out, unresolved |-> <<>>]
    ELSE Let(Head(messages), LAMBDA m :
         IF m[1] \in clients
         THEN EgressWrite(TcpStream_write_all(out, m[1], m[2]), Tail(messages), clients)
         ELSE Let(EgressWrite(out, Tail(messages), clients), LAMBDA r :
              [outbound |-> r.outbound, unresolved |-> <<m>> \o r.unresolved]))

NoRequest == [type |-> "none"]
NoResponse == [ok |-> FALSE, err |-> "none"]
NoWalk == [pc |-> "idle"]
NoRead == [id |-> None]
NoCall == [fn |-> "none"]

\* handler threads that are at work at the same time
MaxBusy == 2
Workers == 1..MaxBusy
IdleWorker == [pc |-> "idle"]

\* no function applied, every handler waiting in `for request in rx`
CallInit ==
    /\ call = NoCall
    /\ workers = [w \in Workers |-> IdleWorker]

\* the server before a connection is accepted
ServerInit ==
    /\ client_id_map = {}
    /\ next_client_id = 0
    /\ inbound = [c \in Conns |-> [chunks |-> <<>>, off |-> 0]]
    /\ outbound = [c \in Conns |-> <<>>]
    /\ client_pc = [c \in Conns |-> "idle"]
    /\ clients_read = <<>>
    /\ read_id_set = {}
    /\ ingress_pc = [at |-> "peek", idx |-> 1, request_size |-> 0]
    /\ incoming_queue = <<>>
    /\ handler_clients = [h \in Handlers |-> None]
    /\ num_active = 0
    /\ handler_rx = [h \in Handlers |-> <<>>]
    /\ response_rx = <<>>
    /\ outgoing_queue = <<>>
    /\ clients_write = {}
    /\ unresolved_messages = <<>>
    /\ received = [c \in Conns |-> 0]
    /\ ingress_log = NoRead

BoardInit ==
    /\ request = NoRequest
    /\ response = NoResponse
    /\ before = store

(***************************************************************************)
(* Specification Spec: one handler running handle_request on the store     *)
(***************************************************************************)
Init ==
    /\ store \in InitStores
    /\ perm_field \in {"write_perms", "read_perms"}
    /\ BoardInit
    /\ walk = NoWalk
    /\ CallInit
    /\ ServerInit

\* command_handler's loop body: `data: handle_request(&self, request)`
Handle(req) ==
    /\ \E r \in {handle_request(store, req)} :
           /\ response' = r.res
           /\ store' = r.store
    /\ request' = req
    /\ before' = store
    /\ UNCHANGED <<perm_field, walk, call_vars, server_vars>>

\* `for request in rx`: the handler takes a request when it has answered the last
GetEntry ==
    /\ request = NoRequest
    /\ \E user_id \in UserIds, entry_id \in EntryIds :
           Handle(GetEntryRequest(user_id, entry_id))

AddEntry ==
    /\ request = NoRequest
    /\ \E user_id \in UserIds, entry_id \in EntryIds \ {ROOT_ID}, parent_id \in EntryIds,
          data \in EntryDatas :
           Handle(AddEntryRequest(user_id, entry_id,
                      [header_data |-> Header(parent_id, <<>>, user_id),
                       entry_data |-> data]))

GetUser ==
    /\ request = NoRequest
    /\ \E user_id \in UserIds : Handle(GetUserRequest(user_id))

AddUser ==
    /\ request = NoRequest
    /\ \E n \in 1..(NumUsers + 1) : Handle(AddUserRequest(U64(n)))

\* command_handler's loop: the response is sent and the next request awaited
SendResponse ==
    /\ request # NoRequest
    /\ request' = NoRequest
    /\ response' = NoResponse
    /\ before' = store
    /\ UNCHANGED <<store, perm_field, walk, call_vars, server_vars>>

Next == GetEntry \/ AddEntry \/ GetUser \/ AddUser \/ SendResponse

Spec == Init /\ [][Next]_vars

(***************************************************************************)
(* Specification SpecWalk: has_access_perm run one loop iteration at a     *)
(* time, on the stores of Spec and on stores with a cycle of parents       *)
(***************************************************************************)
\* a store as a writer outside the server can leave it: messages 1 and 2 are
\* each the parent of the other, beside the root
Cycle(perms) ==
    [entries |->
        [e \in {ROOT_ID, U64(1), U64(2)} |->
            IF e = ROOT_ID THEN Entry_into_data(RootEntry(perms, <<>>))
            ELSE IF e = U64(1) THEN
                Entry_into_data([header_data |-> Header(U64(2), <<U64(2)>>, U64(1)),
                                 entry_data |-> Message(U64(1), <<104, 105>>)])
            ELSE Entry_into_data([header_data |-> Header(U64(1), <<U64(1)>>, U64(2)),
                                  entry_data |-> Message(U64(1), <<104, 105>>)])],
     users |-> UserFiles([u \in UserIds |->
                  IF u = U64(1) THEN <<U64(1)>> ELSE IF u = U64(2) THEN <<U64(2)>> ELSE <<>>]),
     user_list |-> UserList]

InitWalk ==
    /\ store \in InitStores \cup {Cycle(p) : p \in RootPerms}
    /\ perm_field \in {"write_perms", "read_perms"}
    /\ BoardInit
    /\ walk = NoWalk
    /\ CallInit
    /\ ServerInit

\* the call: the statements before `loop`
WalkCall ==
    \E user_id \in UserIds, entry_id \in EntryIds :
        /\ walk = NoWalk
        /\ walk' = [pc |-> "loop", user_id |-> user_id, entry_id |-> entry_id,
                    w |-> WalkStart(store, user_id, entry_id)]
        /\ UNCHANGED <<store, board_vars, call_vars, server_vars>>

\* one iteration of `loop`
WalkLoopStep ==
    /\ walk.pc = "loop"
    /\ ~walk.w.done
    /\ walk' = [walk EXCEPT !.w = WalkIter(store, walk.user_id, walk.w)]
    /\ UNCHANGED <<store, board_vars, call_vars, server_vars>>

\* a `return` or `?`: the caller has the result
WalkReturn ==
    /\ walk.pc = "loop"
    /\ walk.w.done
    /\ walk' = [pc |-> "returned", user_id |-> walk.user_id, entry_id |-> walk.entry_id,
                result |-> walk.w.result]
    /\ UNCHANGED <<store, board_vars, call_vars, server_vars>>

\* the caller goes on
WalkDone ==
    /\ walk.pc = "returned"
    /\ walk' = NoWalk
    /\ UNCHANGED <<store, board_vars, call_vars, server_vars>>

NextWalk == WalkCall \/ WalkLoopStep \/ WalkReturn \/ WalkDone

SpecWalk == InitWalk /\ [][NextWalk]_vars

\* the thread that runs has_access_perm is scheduled
FairSpecWalk ==
    SpecWalk /\ WF_vars(WalkLoopStep) /\ WF_vars(WalkReturn) /\ WF_vars(WalkDone)

(***************************************************************************)
(* Specification SpecServer: connections, ingress, dispatcher, handlers    *)
(* and egress                                                              *)
(***************************************************************************)
\* payload sizes of the requests the peers send
BigLen == 32 * 256

\* a message entry whose text makes the encoded request n bytes long
FilledMessage(user_id, n) ==
    Let([header_data |-> Header(ROOT_ID, <<>>, user_id),
         entry_data |-> Message(U64(1), <<>>)], LAMBDA empty :
    Let(n - Len(<<REQUEST_FORMAT_VERSION, ADD_ENTRY>> \o user_id \o Entry_into_data(empty)),
        LAMBDA fill :
    [empty EXCEPT !.entry_data.message = [i \in 1..fill |-> 97]]))

\* the requests a peer sends: GetUser{1}, and an AddEntry of BigLen bytes
ClientRequest(tag) ==
    IF tag = "GetUser" THEN [type |-> "GetUser", user_id |-> U64(1)]
    ELSE [type |-> "AddEntry", user_id |-> U64(1), entry |-> FilledMessage(U64(1), BigLen)]

ClientRequestTags == {"GetUser", "AddEntry"}

\* the payload of a frame: the encoded request; for "Padded" the encoded
\* GetUser{1} followed by zero bytes up to BigLen, and for "Undecodable" BigLen
\* bytes that are no request, the version and then a discriminant that no
\* request has (peers other than client.rs)
RequestData(tag) ==
    IF tag = "Padded"
    THEN Let(BoardRequest_into_data(ClientRequest("GetUser")), LAMBDA data :
         data \o [i \in 1..(BigLen - Len(data)) |-> 0])
    ELSE IF tag = "Undecodable"
    THEN [i \in 1..BigLen |-> IF i = 1 THEN REQUEST_FORMAT_VERSION ELSE IF i = 2 THEN 2 ELSE 0]
    ELSE BoardRequest_into_data(ClientRequest(tag))

\* the bytes of one write_all of send_request: the length, or the request
ChunkBytes(chunk) ==
    Let(RequestData(chunk.tag), LAMBDA data :
    IF chunk.part = "len" THEN Let(Len(data), LAMBDA len : to_le_bytes(len, 8)) ELSE data)

\* the bytes a connection has for the server to read
Readable(stream) ==
    Drop(Flatten([i \in 1..Len(stream.chunks) |-> ChunkBytes(stream.chunks[i])]),
         stream.off)

TcpStream_write(stream, chunk) == [stream EXCEPT !.chunks = Append(@, chunk)]

RECURSIVE TcpStream_read(_, _)
\* the connection after the server has read n of its bytes
TcpStream_read(stream, n) ==
    IF stream.chunks = <<>> THEN [stream EXCEPT !.off = @ + n]
    ELSE Let(Len(ChunkBytes(Head(stream.chunks))), LAMBDA size :
         IF stream.off + n >= size
         THEN TcpStream_read([chunks |-> Tail(stream.chunks), off |-> 0],
                             stream.off + n - size)
         ELSE [stream EXCEPT !.off = @ + n])

InitServer ==
    /\ store = RootOnly(<<White(<<>>), White(<<>>)>>)
    /\ perm_field = "write_perms"
    /\ BoardInit
    /\ walk = NoWalk
    /\ CallInit
    /\ ServerInit

\* add_client looking for a free id from 0, not from next_client_id
add_client_Reusing ==
    LET id == NextFreeId(client_id_map, 0) IN
    /\ id \in Conns
    /\ client_id_map' = client_id_map \cup {id}
    /\ next_client_id' = id + 1
    /\ UNCHANGED <<store, board_vars, walk, call_vars, inbound, outbound, client_pc, clients_read,
                   read_id_set, ingress_pc, incoming_queue, handler_clients, num_active,
                   handler_rx, response_rx, outgoing_queue, clients_write, unresolved_messages, received,
                   ingress_log>>

\* main: `server.add_client(stream)` for an incoming connection
add_client ==
    LET id == NextFreeId(client_id_map, next_client_id) IN
    /\ id \in Conns
    /\ client_id_map' = client_id_map \cup {id}
    /\ next_client_id' = id + 1
    /\ UNCHANGED <<store, board_vars, walk, call_vars, inbound, outbound, client_pc, clients_read,
                   read_id_set, ingress_pc, incoming_queue, handler_clients, num_active,
                   handler_rx, response_rx, outgoing_queue, clients_write, unresolved_messages, received,
                   ingress_log>>

\* client.rs send_request: `write_all(&(request.len() as u64).to_le_bytes())`
send_request_len ==
    \E c \in client_id_map, tag \in ClientRequestTags :
        /\ client_pc[c] = "idle"
        /\ inbound' = [inbound EXCEPT ![c] =
                          TcpStream_write(@, [tag |-> tag, part |-> "len"])]
        /\ client_pc' = [client_pc EXCEPT ![c] = tag]
        /\ UNCHANGED <<store, board_vars, walk, call_vars, client_id_map, next_client_id, outbound,
                       clients_read, read_id_set, ingress_pc, incoming_queue,
                       handler_clients, num_active, handler_rx, response_rx,
                       outgoing_queue, clients_write, unresolved_messages, received, ingress_log>>

\* client.rs send_request: `write_all(&request)`; the peer then waits in
\* read_exact for 8 bytes of a response length
send_request_payload ==
    \E c \in client_id_map :
        /\ client_pc[c] \in ClientRequestTags
        /\ inbound' = [inbound EXCEPT ![c] =
                          TcpStream_write(@, [tag |-> client_pc[c], part |-> "request"])]
        /\ client_pc' = [client_pc EXCEPT ![c] = "read_exact"]
        /\ UNCHANGED <<store, board_vars, walk, call_vars, client_id_map, next_client_id, outbound,
                       clients_read, read_id_set, ingress_pc, incoming_queue,
                       handler_clients, num_active, handler_rx, response_rx,
                       outgoing_queue, clients_write, unresolved_messages, received, ingress_log>>

\* ingress thread, `client.peek(&mut request_size)` on a blocking socket: it
\* returns when the connection has bytes to read
\* returns when the connection has bytes to read or has ended: Ok(0) at end of
\* file, and once an Err on a connection that was reset (`remove(id); continue;`)
IngressPeek ==
    /\ ingress_pc.at = "peek"
    /\ ingress_pc.idx <= Len(clients_read)
    /\ \E id \in {clients_read[ingress_pc.idx]} :
           IF client_pc[id] = "reset" THEN
               /\ client_id_map' = client_id_map \ {id}
               /\ client_pc' = [client_pc EXCEPT ![id] = "aborted"]
               /\ ingress_pc' = [ingress_pc EXCEPT !.idx = @ + 1]
           ELSE
               /\ \E peeked \in {Take(Readable(inbound[id]), 8)} :
                      /\ peeked # <<>> \/ client_pc[id] \in {"closed", "aborted"}
                      /\ ingress_pc' =
                             IF Len(peeked) < 8 THEN [ingress_pc EXCEPT !.idx = @ + 1]
                             ELSE [ingress_pc EXCEPT !.at = "read_exact",
                                                     !.request_size = from_le_bytes(peeked)]
               /\ UNCHANGED <<client_id_map, client_pc>>
    /\ UNCHANGED <<store, board_vars, walk, call_vars, next_client_id, inbound,
                   outbound, clients_read, read_id_set, incoming_queue,
                   handler_clients, num_active, handler_rx, response_rx, outgoing_queue,
                   clients_write, unresolved_messages, received, ingress_log>>

\* ingress thread: `vec![0u8; request_size + 8]`, read_exact (which returns when
\* that many bytes have come), BoardRequest::from_data(&request) and the send
IngressRead ==
    /\ ingress_pc.at = "read_exact"
    /\ LET id == clients_read[ingress_pc.idx]
           n == ingress_pc.request_size + 8
       IN  \E readable \in {Readable(inbound[id])} :
             IF Len(readable) < n THEN
               \* read_exact is an Err when the connection ends before n bytes
               \* have come: `if client.read_exact(..).is_err() {continue}`
               /\ client_pc[id] \in {"closed", "reset"}
               /\ inbound' = [inbound EXCEPT ![id] = [chunks |-> <<>>, off |-> 0]]
               /\ client_pc' = [client_pc EXCEPT ![id] = IF @ = "reset" THEN "aborted" ELSE @]
               /\ ingress_log' = [id |-> id, stream |-> inbound[id],
                                  read |-> Len(readable), error |-> "read_exact"]
               /\ UNCHANGED <<incoming_queue, received>>
             ELSE
               /\ UNCHANGED client_pc
               /\ \E request_buf \in {Take(readable, n)} :
                      \* `&request`: the slice of the buffer that is decoded
                      \E slice \in {[start |-> 0, len |-> Len(request_buf)]} :
                          \E decoded \in {BoardRequest_from_data(
                                  SubSeq(request_buf, slice.start + 1,
                                         slice.start + slice.len))} :
                              /\ incoming_queue' =
                                     IF decoded.ok
                                     THEN Append(incoming_queue, <<id, decoded.val>>)
                                     ELSE incoming_queue
                              /\ ingress_log' = [id |-> id, stream |-> inbound[id],
                                                 read |-> n, slice |-> slice,
                                                 decoded |-> decoded]
               /\ inbound' = [inbound EXCEPT ![id] = TcpStream_read(@, n)]
               /\ received' = [received EXCEPT ![id] = @ + 1]
    /\ ingress_pc' = [at |-> "peek", idx |-> ingress_pc.idx + 1, request_size |-> 0]
    /\ UNCHANGED <<store, board_vars, walk, call_vars, client_id_map, next_client_id, outbound,
                   clients_read, read_id_set, handler_clients, num_active,
                   handler_rx, response_rx, outgoing_queue, clients_write, unresolved_messages>>

\* ingress thread, after the `for`: to_remove is empty; clients_read is filtered
\* and the new connections are pushed in the order the map yields them
IngressRefresh ==
    /\ ingress_pc.at = "peek"
    /\ ingress_pc.idx > Len(clients_read)
    /\ LET kept == SelectSeq(clients_read, LAMBDA id : id \in client_id_map)
           new == client_id_map \ read_id_set
       IN  \E order \in [1..Cardinality(new) -> new] :
               /\ \A i, j \in DOMAIN order : i # j => order[i] # order[j]
               /\ clients_read' = kept \o order
               /\ read_id_set' = read_id_set \cup new
    /\ ingress_pc' = [ingress_pc EXCEPT !.idx = 1]
    /\ UNCHANGED <<store, board_vars, walk, call_vars, client_id_map, next_client_id, inbound,
                   outbound, client_pc, incoming_queue, handler_clients, num_active,
                   handler_rx, response_rx, outgoing_queue, clients_write, unresolved_messages, received,
                   ingress_log>>

\* the forwarding with every slot emptied
Forward_ClearingAll(clients, queue, r) ==
    [handler_clients |-> [h \in Handlers |-> None],
     outgoing_queue |-> Append(queue, <<clients[r.handler_id], r.data>>)]

\* the forwarding with the slot read and not taken
Forward_KeepingSlot(clients, queue, r) ==
    [handler_clients |-> clients,
     outgoing_queue |-> Append(queue, <<clients[r.handler_id], r.data>>)]

\* the forwarding with the id read from the slot of the first handler
Forward_FirstSlot(clients, queue, r) ==
    [handler_clients |-> [clients EXCEPT ![0] = None],
     outgoing_queue |-> Append(queue, <<clients[0], r.data>>)]

\* `handler_clients[handler_id].take()` and the send to the egress thread
Forward(clients, queue, r) ==
    [handler_clients |-> [clients EXCEPT ![r.handler_id] = None],
     outgoing_queue |-> Append(queue, <<clients[r.handler_id], r.data>>)]

\* dispatcher thread: one iteration of its loop
Dispatcher ==
    IF num_active = num_threads THEN
        \* response_rx.recv() blocks
        /\ response_rx # <<>>
        /\ LET f == Forward(handler_clients, outgoing_queue, Head(response_rx)) IN
           /\ handler_clients' = f.handler_clients
           /\ outgoing_queue' = f.outgoing_queue
        /\ response_rx' = Tail(response_rx)
        /\ num_active' = num_active - 1
        /\ UNCHANGED <<store, board_vars, walk, call_vars, client_id_map, next_client_id, inbound,
                       outbound, client_pc, clients_read, read_id_set, ingress_pc,
                       incoming_queue, handler_rx, clients_write, unresolved_messages, received, ingress_log>>
    ELSE IF num_active < num_threads THEN
        /\ incoming_queue # <<>> \/ response_rx # <<>>
        /\ LET took == incoming_queue # <<>>
               free == {h \in Handlers : handler_clients[h] = None}
               sent_to_handler == took /\ free # {}
               handler == CHOOSE h \in free : \A g \in free : h <= g
               assigned == IF sent_to_handler
                           THEN [handler_clients EXCEPT ![handler] = Head(incoming_queue)[1]]
                           ELSE handler_clients
               active == IF sent_to_handler THEN num_active + 1
                         ELSE IF took THEN num_threads ELSE num_active
               responded == response_rx # <<>>
               f == Forward(assigned, outgoing_queue, Head(response_rx))
           IN  /\ incoming_queue' = IF took THEN Tail(incoming_queue) ELSE incoming_queue
               /\ handler_rx' = IF sent_to_handler
                                THEN [handler_rx EXCEPT ![handler] =
                                          Append(@, Head(incoming_queue)[2])]
                                ELSE handler_rx
               /\ handler_clients' = IF responded THEN f.handler_clients ELSE assigned
               /\ outgoing_queue' = IF responded THEN f.outgoing_queue ELSE outgoing_queue
               /\ response_rx' = IF responded THEN Tail(response_rx) ELSE response_rx
               /\ num_active' = IF responded THEN active - 1 ELSE active
        /\ UNCHANGED <<store, board_vars, walk, call_vars, client_id_map, next_client_id, inbound,
                       outbound, client_pc, clients_read, read_id_set, ingress_pc,
                       clients_write, unresolved_messages, received, ingress_log>>
    ELSE
        /\ num_active' = IF num_active > num_threads THEN 4 ELSE 0
        /\ UNCHANGED <<store, board_vars, walk, call_vars, client_id_map, next_client_id, inbound,
                       outbound, client_pc, clients_read, read_id_set, ingress_pc,
                       incoming_queue, handler_clients, handler_rx, response_rx,
                       outgoing_queue, clients_write, unresolved_messages, received, ingress_log>>

\* a handler thread: `for request in rx` with handle_request and the send
command_handler ==
    \E handler_id \in Handlers :
        /\ handler_rx[handler_id] # <<>>
        /\ \E r \in {handle_request(store, Head(handler_rx[handler_id]))} :
               /\ response_rx' = Append(response_rx,
                                        [handler_id |-> handler_id, data |-> r.res])
               /\ store' = r.store
        /\ handler_rx' = [handler_rx EXCEPT ![handler_id] = Tail(@)]
        /\ UNCHANGED <<board_vars, walk, call_vars, client_id_map, next_client_id, inbound, outbound,
                       client_pc, clients_read, read_id_set, ingress_pc, incoming_queue,
                       handler_clients, num_active, outgoing_queue, clients_write, unresolved_messages,
                       received, ingress_log>>

\* egress thread: one iteration of its loop.  The messages of the outgoing
\* channel are written or kept as unresolved; clients_write is brought up to
\* client_id_map; the unresolved messages are written or dropped.
Egress ==
    /\ outgoing_queue # <<>> \/ clients_write # client_id_map \/ unresolved_messages # <<>>
    /\ \E first \in {EgressWrite(outbound, outgoing_queue, clients_write)},
          refreshed \in {{id \in clients_write : id \in client_id_map} \cup client_id_map} :
           /\ outbound' = EgressWrite(first.outbound,
                                      unresolved_messages \o first.unresolved,
                                      refreshed).outbound
           /\ clients_write' = refreshed
           \* a write_all on a connection that was reset returns the socket's error
           /\ client_pc' =
                  [c \in Conns |->
                      IF /\ client_pc[c] = "reset"
                         /\ \/ /\ c \in clients_write \cup refreshed
                               /\ \E i \in DOMAIN outgoing_queue : outgoing_queue[i][1] = c
                            \/ /\ c \in refreshed
                               /\ \E i \in DOMAIN unresolved_messages :
                                      unresolved_messages[i][1] = c
                      THEN "aborted" ELSE client_pc[c]]
    /\ outgoing_queue' = <<>>
    /\ unresolved_messages' = <<>>
    /\ UNCHANGED <<store, board_vars, walk, call_vars, client_id_map, next_client_id, inbound,
                   clients_read, read_id_set, ingress_pc, incoming_queue,
                   handler_clients, num_active, handler_rx, response_rx, received,
                   ingress_log>>

\* egress thread: an iteration in which `client_id_map.try_read()` is an Err,
\* the lock being held for writing (add_client, or the ingress thread's remove):
\* the messages for the connections of clients_write are written, the others
\* are pushed to unresolved_messages, and nothing is refreshed or retried
EgressTryReadErr ==
    /\ outgoing_queue # <<>>
    /\ \E first \in {EgressWrite(outbound, outgoing_queue, clients_write)} :
           /\ outbound' = first.outbound
           /\ unresolved_messages' = unresolved_messages \o first.unresolved
           /\ client_pc' =
                  [c \in Conns |->
                      IF /\ client_pc[c] = "reset"
                         /\ c \in clients_write
                         /\ \E i \in DOMAIN outgoing_queue : outgoing_queue[i][1] = c
                      THEN "aborted" ELSE client_pc[c]]
    /\ outgoing_queue' = <<>>
    /\ UNCHANGED <<store, board_vars, walk, call_vars, client_id_map, next_client_id, inbound,
                   clients_read, read_id_set, ingress_pc, incoming_queue,
                   handler_clients, num_active, handler_rx, response_rx, clients_write,
                   received, ingress_log>>

NextServer ==
    \/ add_client
    \/ send_request_len
    \/ send_request_payload
    \/ IngressPeek
    \/ IngressRead
    \/ IngressRefresh
    \/ Dispatcher
    \/ command_handler
    \/ Egress

SpecServer == InitServer /\ [][NextServer]_vars

\* the four kinds of thread of the server are scheduled
FairSpecServer ==
    /\ SpecServer
    /\ WF_vars(IngressPeek) /\ WF_vars(IngressRead) /\ WF_vars(IngressRefresh)
    /\ WF_vars(Dispatcher)
    /\ WF_vars(command_handler)
    /\ WF_vars(Egress)

(***************************************************************************)
(* Specification SpecPeers: the server with peers that send a frame before *)
(* the response to the last one, close their connection or abort it        *)
(***************************************************************************)
\* frames a peer writes on one connection
MaxFrames == 2

\* the user that the request decoded from an AddEntry frame of BigLen bytes names
FramedUser == <<0, 0, 0, 0, 0, 0, REQUEST_FORMAT_VERSION, ADD_ENTRY>>

InitPeers ==
    /\ \E root \in {RootOnly(<<White(<<>>), White(<<>>)>>)} :
           store = [root EXCEPT
                       !.users = File(@, FramedUser,
                                      UserData_into_data([entry_ids |-> <<U64(1)>>])),
                       !.user_list = @ \o FramedUser]
    /\ perm_field = "write_perms"
    /\ BoardInit
    /\ walk = NoWalk
    /\ CallInit
    /\ ServerInit

\* a peer that does not wait in read_exact for the response: the two write_alls
\* of send_request once more, for its next frame
PeerPipelines ==
    \E c \in client_id_map, tag \in {"Padded", "Undecodable"} :
        /\ client_pc[c] = "read_exact"
        /\ \A d \in Conns \ {c} : received[d] = 0 /\ inbound[d].chunks = <<>>
        /\ received[c] + Cardinality({i \in DOMAIN inbound[c].chunks :
                                         inbound[c].chunks[i].part = "len"}) < MaxFrames
        /\ inbound' = [inbound EXCEPT ![c] =
                          TcpStream_write(TcpStream_write(@, [tag |-> tag, part |-> "len"]),
                                          [tag |-> tag, part |-> "request"])]
        /\ UNCHANGED <<store, board_vars, walk, call_vars, client_id_map, next_client_id, outbound,
                       client_pc, clients_read, read_id_set, ingress_pc, incoming_queue,
                       handler_clients, num_active, handler_rx, response_rx,
                       outgoing_queue, clients_write, unresolved_messages, received, ingress_log>>

\* the peer's end of a connection goes away.  "closed": its socket is dropped
\* with nothing unread, the server reads what was sent and then end of file.
\* "reset": the connection is aborted, what was sent and not read is lost, and
\* the next call on the server's socket returns the error.
TcpStream_drop ==
    \E c \in client_id_map, how \in {"closed", "reset"} :
        /\ \A d \in Conns : client_pc[d] \notin {"closed", "reset", "aborted"}
        /\ client_pc' = [client_pc EXCEPT ![c] = how]
        /\ inbound' = [inbound EXCEPT ![c] =
                          IF how = "reset" THEN [chunks |-> <<>>, off |-> 0] ELSE @]
        /\ UNCHANGED <<store, board_vars, walk, call_vars, client_id_map, next_client_id, outbound,
                       clients_read, read_id_set, ingress_pc, incoming_queue,
                       handler_clients, num_active, handler_rx, response_rx,
                       outgoing_queue, clients_write, unresolved_messages, received, ingress_log>>

NextPeers ==
    \/ add_client
    \/ send_request_len
    \/ send_request_payload
    \/ PeerPipelines
    \/ TcpStream_drop
    \/ IngressPeek
    \/ IngressRead
    \/ IngressRefresh
    \/ Dispatcher
    \/ command_handler
    \/ Egress

SpecPeers == InitPeers /\ [][NextPeers]_vars

\* the four kinds of thread of the server are scheduled
FairSpecPeers ==
    /\ SpecPeers
    /\ WF_vars(IngressPeek) /\ WF_vars(IngressRead) /\ WF_vars(IngressRefresh)
    /\ WF_vars(Dispatcher)
    /\ WF_vars(command_handler)
    /\ WF_vars(Egress)

(***************************************************************************)
(* Specification SpecDispatch: the dispatcher, the handlers and the egress *)
(* thread from a state in which the ingress thread has enqueued requests   *)
(***************************************************************************)
\* requests that wait in the incoming channel
MaxQueued == 5

\* the request decoded from the i-th frame: GetUser for the user of an AddEntry
\* frame of BigLen bytes, or for the user of a "Padded" frame
QueuedRequest(i) ==
    [type |-> "GetUser",
     user_id |-> IF i % 2 = 1 THEN FramedUser
                 ELSE <<0, 0, 0, 0, 0, 0, REQUEST_FORMAT_VERSION, GET_USER>>]

\* the two connections are registered, or connection 0 has been removed after a
\* peek Err; the egress thread has seen none of them, or has seen both; the
\* frames came on connection 0, on connection 1, or in turn on both
InitDispatch ==
    /\ \E root \in {RootOnly(<<White(<<>>), White(<<>>)>>)} :
           store = [root EXCEPT
                       !.users = File(@, FramedUser,
                                      UserData_into_data([entry_ids |-> <<U64(1)>>])),
                       !.user_list = @ \o FramedUser]
    /\ perm_field = "write_perms"
    /\ BoardInit
    /\ walk = NoWalk
    /\ CallInit
    /\ client_id_map \in {Conns, Conns \ {0}}
    /\ next_client_id = MaxClients
    /\ inbound = [c \in Conns |-> [chunks |-> <<>>, off |-> 0]]
    /\ outbound = [c \in Conns |-> <<>>]
    /\ client_pc = [c \in Conns |-> IF c \in client_id_map THEN "read_exact" ELSE "aborted"]
    /\ clients_read = SelectSeq([i \in 1..MaxClients |-> i - 1], LAMBDA c : c \in client_id_map)
    /\ read_id_set = Conns
    /\ ingress_pc = [at |-> "peek", idx |-> 1, request_size |-> 0]
    /\ \E n \in 0..MaxQueued, from \in {"0", "1", "both"} :
           incoming_queue =
               [i \in 1..n |-> <<IF from = "both" THEN i % 2 ELSE IF from = "0" THEN 0 ELSE 1,
                                 QueuedRequest(i)>>]
    /\ handler_clients = [h \in Handlers |-> None]
    /\ num_active = 0
    /\ handler_rx = [h \in Handlers |-> <<>>]
    /\ response_rx = <<>>
    /\ outgoing_queue = <<>>
    /\ clients_write \in {{}, Conns}
    /\ unresolved_messages = <<>>
    /\ received = [c \in Conns |->
                      Len(SelectSeq(incoming_queue, LAMBDA m : m[1] = c))]
    /\ ingress_log = NoRead

NextDispatch ==
    \/ Dispatcher
    \/ command_handler
    \/ Egress
    \/ EgressTryReadErr

SpecDispatch == InitDispatch /\ [][NextDispatch]_vars

(***************************************************************************)
(* The framing and end-to-end contract of the server                       *)
(***************************************************************************)
\* C1: end-to-end response.  Under fair scheduling of the ingress, dispatcher,
\* handler and egress threads, a well-formed framed request read on a registered
\* connection leads to a response written on that connection, and no connection
\* is written more responses than requests were read on it.
C1_EndToEndResponse ==
    /\ [](\A c \in Conns : Len(outbound[c]) <= received[c])
    /\ \A c \in Conns : (received[c] = 1) ~> (Len(outbound[c]) = 1)

\* C2: ingress framing.  Each read of the ingress thread consumes the 8-byte
\* little-endian length prefix len and len payload bytes, and the bytes handed
\* to the request decoder are those len payload bytes, without the prefix.
C2_IngressFraming ==
    ingress_log # NoRead =>
        LET len == from_le_bytes(Take(Readable(ingress_log.stream), 8)) IN
        /\ ingress_log.read = 8 + len
        /\ ingress_log.slice = [start |-> 8, len |-> len]

\* C3: egress framing.  Every write of the egress thread on a connection is the
\* 8-byte little-endian length of the encoded response followed by the encoded
\* response.
C3_EgressFraming ==
    \A c \in Conns : \A i \in 1..Len(outbound[c]) :
        LET encoded == BoardResponse_into_data(outbound[c][i].message) IN
        outbound[c][i].bytes = to_le_bytes(Len(encoded), 8) \o encoded

\* C7: resolver termination.  A call of has_access_perm returns, also on a store
\* whose parent pointers form a cycle that does not pass through the root.
C7_ResolverTerminates ==
    (walk.pc = "loop") ~> (walk.pc = "returned")

(***************************************************************************)
(* The resolver's contract, read off the stored entries                    *)
(***************************************************************************)
\* the set of a stored group that the resolver is to consult
OwnPermSet(group) ==
    IF perm_field = "write_perms" THEN group.write_perms ELSE group.read_perms

\* what the entry stored under `id` decides for the user by itself
OwnDecision(s, user_id, id) ==
    LET e == get_entry(s, id).val IN
    IF e.entry_data.type = "AccessGroup"
    THEN DefaultedIdSet_contains(OwnPermSet(e.entry_data), user_id)
    ELSE [none |-> TRUE]

RECURSIVE PathToRoot(_, _, _)
\* the ids target, parent, ..., root when every entry on the way exists and
\* decodes and the root is reached within n steps; <<>> otherwise
PathToRoot(s, id, n) ==
    IF n = 0 \/ ~get_entry(s, id).ok THEN <<>>
    ELSE IF id = ROOT_ID THEN <<id>>
    ELSE LET up == PathToRoot(s, get_entry(s, id).val.header_data.parent_id, n - 1) IN
         IF up = <<>> THEN <<>> ELSE <<id>> \o up

Path(s, id) == PathToRoot(s, id, Cardinality(DOMAIN s.entries))

\* the positions of the path whose entry decides for the user
Deciding(s, user_id, path) ==
    {i \in 1..Len(path) : "some" \in DOMAIN OwnDecision(s, user_id, path[i])}

Min(S) == CHOOSE x \in S : \A y \in S : x <= y

\* C4: first-decision rule.  On a well-formed tree has_access_perm(user, target)
\* returns the decision of the nearest entry on the path target, parent, ..., root
\* that is an access group whose own permission set decides for the user.
C4_FirstDecisionRule ==
    \A user_id \in UserIds, target \in DOMAIN store.entries :
        LET path == Path(store, target)
            dec == Deciding(store, user_id, path)
        IN  (path # <<>> /\ dec # {}) =>
                has_access_perm(store, user_id, target)
                    = Ok(OwnDecision(store, user_id, path[Min(dec)]).some)

\* C5: default deny.  When no entry on the path from the target up to and
\* including the root decides for the user, has_access_perm returns deny.
C5_DefaultDeny ==
    \A user_id \in UserIds, target \in DOMAIN store.entries :
        LET path == Path(store, target) IN
        (path # <<>> /\ Deciding(store, user_id, path) = {}) =>
            has_access_perm(store, user_id, target) = Ok(FALSE)

\* the store with one field (write_perms or read_perms) of group `id` replaced
WithPerms(s, id, field, set) ==
    LET e == get_entry(s, id).val
        data == IF field = "write_perms" THEN [e.entry_data EXCEPT !.write_perms = set]
                ELSE [e.entry_data EXCEPT !.read_perms = set]
    IN  force_write_entry(s, id, [e EXCEPT !.entry_data = data]).store

Groups(s) ==
    {id \in DOMAIN s.entries :
        get_entry(s, id).ok /\ get_entry(s, id).val.entry_data.type = "AccessGroup"}

PermSets == {White(<<>>), Black(<<>>), Inherit(<<>>, <<>>)}

\* granted, or the error
Outcome(res) == IF res.ok THEN "granted" ELSE res.err

\* C6: read and write permissions are separate.  Changing only the write_perms
\* of a group never changes the outcome of a GetEntry, and changing only its
\* read_perms never changes the outcome of an AddEntry.
C6_ReadWriteSeparated ==
    \A g \in Groups(store), set \in PermSets, user_id \in UserIds :
        /\ \A entry_id \in DOMAIN store.entries :
              Outcome(handle_request(WithPerms(store, g, "write_perms", set),
                                     GetEntryRequest(user_id, entry_id)).res)
              = Outcome(handle_request(store, GetEntryRequest(user_id, entry_id)).res)
        /\ \A entry_id \in EntryIds \ DOMAIN store.entries, parent_id \in DOMAIN store.entries :
              LET req == AddEntryRequest(user_id, entry_id,
                             [header_data |-> Header(parent_id, <<>>, user_id),
                              entry_data |-> Message(U64(1), <<104, 105>>)])
              IN  Outcome(handle_request(WithPerms(store, g, "read_perms", set), req).res)
                  = Outcome(handle_request(store, req).res)

\* C8: authoring bypass.  A GetEntry for an existing, decodable entry written by
\* the requesting user returns the entry, whatever the resolver would say.
C8_AuthorBypass ==
    request.type = "GetEntry" =>
        LET e == get_entry(before, request.entry_id) IN
        (e.ok /\ e.val.header_data.author_id = request.user_id) =>
            response = Ok([type |-> "GetEntry", entry |-> e.val])

\* a GetEntry by the author was answered with the entry although the resolver,
\* started at the entry's parent, does not allow
C8_Witness ==
    /\ request.type = "GetEntry"
    /\ get_entry(before, request.entry_id).ok
    /\ get_entry(before, request.entry_id).val.header_data.author_id = request.user_id
    /\ has_access_perm(before, request.user_id,
           get_entry(before, request.entry_id).val.header_data.parent_id) # Ok(TRUE)
    /\ response.ok

\* C9: GetEntry denial.  A GetEntry for an existing entry of another author, for
\* which the resolver started at the entry's parent denies, gives
\* InsufficientPerms; a GetEntry for an id without a file gives DoesNotExist.
C9_GetEntryDenied ==
    request.type = "GetEntry" =>
        LET e == get_entry(before, request.entry_id) IN
        /\ (/\ e.ok
            /\ e.val.header_data.author_id # request.user_id
            /\ has_access_perm(before, request.user_id, e.val.header_data.parent_id)
                   = Ok(FALSE))
           => response = Err("InsufficientPerms")
        /\ request.entry_id \notin DOMAIN before.entries => response = Err("DoesNotExist")

\* a GetEntry of another author's entry was denied by the resolver
C9_Witness ==
    /\ request.type = "GetEntry"
    /\ get_entry(before, request.entry_id).ok
    /\ get_entry(before, request.entry_id).val.header_data.author_id # request.user_id
    /\ has_access_perm(before, request.user_id,
           get_entry(before, request.entry_id).val.header_data.parent_id) = Ok(FALSE)
    /\ response = Err("InsufficientPerms")

\* C10: a denied AddEntry changes nothing.  When the resolver denies under the
\* requested parent the response is InsufficientPerms, which is encoded as the
\* generic error response (version, 0xff), and the store (entry files, the
\* parent's children_ids, the user records) is as before.
C10_DeniedAddEntry ==
    (/\ request.type = "AddEntry"
     /\ has_access_perm(before, request.user_id, request.entry.header_data.parent_id)
            = Ok(FALSE))
    => /\ response = Err("InsufficientPerms")
       /\ BoardResponse_into_data(response) = <<RESPONSE_FORMAT_VERSION, ERROR>>
       /\ store = before

\* an AddEntry under a parent where the resolver denies, for an id that was free
C10_Witness ==
    /\ request.type = "AddEntry"
    /\ has_access_perm(before, request.user_id, request.entry.header_data.parent_id)
           = Ok(FALSE)
    /\ request.entry_id \notin DOMAIN before.entries
    /\ response = Err("InsufficientPerms")
    /\ store = before

(***************************************************************************)
(* server.rs: handler threads at work at the same time.  The dispatcher    *)
(* hands each request to a free handler, so handle_request runs on         *)
(* several threads over one file directory, without a lock.  A worker is   *)
(* at the statement `pc` names; each file system call is one step.         *)
(***************************************************************************)
\* the requests the handlers are given: messages under the root and new users
WorkerRequests ==
    {AddEntryRequest(user_id, entry_id,
                     [header_data |-> Header(ROOT_ID, <<>>, user_id),
                      entry_data |-> Message(U64(1), <<104, 105>>)]) :
        user_id \in UserIds, entry_id \in EntryIds \ {ROOT_ID}}
    \cup {AddUserRequest(U64(n)) : n \in {0, 1, NumUsers + 1}}

\* `return`, `?` or the final Ok: the worker has its result
Return(w, result) ==
    [pc |-> "done", request |-> workers[w].request, result |-> result]
\* the worker goes on to the statement `pc`
Goto(w, pc) == [pc |-> pc, request |-> workers[w].request]

InitWorkers ==
    /\ store = RootOnly(<<White(<<>>), White(<<>>)>>)
    /\ perm_field = "write_perms"
    /\ BoardInit
    /\ walk = NoWalk
    /\ CallInit
    /\ ServerInit

\* `for request in rx`: a waiting handler is sent a request
WorkerRecv ==
    /\ \E w \in Workers : workers[w].pc = "idle"
    /\ \E w \in Workers, req \in WorkerRequests :
           /\ workers[w].pc = "idle"
           /\ workers' = [workers EXCEPT ![w] =
                  [pc |-> IF req.type = "AddEntry" THEN "has_access_perm"
                          ELSE "get_user_list",
                   request |-> req]]
    /\ UNCHANGED <<store, board_vars, walk, call, server_vars>>

\* AddEntry: `if !board.has_access_perm(user_id, entry.header_data.parent_id)?`
WorkerHasAccessPerm ==
    /\ \E w \in Workers : workers[w].pc = "has_access_perm"
    /\ \E w \in Workers :
           /\ workers[w].pc = "has_access_perm"
           /\ \E perm \in {has_access_perm(store, workers[w].request.user_id,
                               workers[w].request.entry.header_data.parent_id)} :
                  workers' = [workers EXCEPT ![w] =
                      IF ~perm.ok THEN Return(w, perm)
                      ELSE IF ~perm.val THEN Return(w, Err("InsufficientPerms"))
                      ELSE Goto(w, "write_entry_exists")]
    /\ UNCHANGED <<store, board_vars, walk, call, server_vars>>

\* write_entry without `if exists {return Err(AlreadyExists)}`
WorkerWriteEntryExists_Unchecked ==
    /\ \E w \in Workers : workers[w].pc = "write_entry_exists"
    /\ \E w \in Workers :
           /\ workers[w].pc = "write_entry_exists"
           /\ workers' = [workers EXCEPT ![w] = Goto(w, "write_entry_write")]
    /\ UNCHANGED <<store, board_vars, walk, call, server_vars>>

\* write_entry: `fs::exists(&path)` and the return of AlreadyExists
WorkerWriteEntryExists ==
    /\ \E w \in Workers : workers[w].pc = "write_entry_exists"
    /\ \E w \in Workers :
           /\ workers[w].pc = "write_entry_exists"
           /\ workers' = [workers EXCEPT ![w] =
                  IF workers[w].request.entry_id \in DOMAIN store.entries
                  THEN Return(w, Err("AlreadyExists"))
                  ELSE Goto(w, "write_entry_write")]
    /\ UNCHANGED <<store, board_vars, walk, call, server_vars>>

\* write_entry: `fs::write(path, entry.into_data())`
WorkerWriteEntryWrite ==
    /\ \E w \in Workers : workers[w].pc = "write_entry_write"
    /\ \E w \in Workers :
           /\ workers[w].pc = "write_entry_write"
           /\ store' = [store EXCEPT !.entries =
                  File(@, workers[w].request.entry_id,
                       Entry_into_data(workers[w].request.entry))]
           /\ workers' = [workers EXCEPT ![w] = Goto(w, "get_user")]
    /\ UNCHANGED <<board_vars, walk, call, server_vars>>

\* add_entry: `let mut user_data = self.get_user(user_id)?` and the push
WorkerGetUser ==
    /\ \E w \in Workers : workers[w].pc = "get_user"
    /\ \E w \in Workers :
           /\ workers[w].pc = "get_user"
           /\ \E user_data \in {get_user(store, workers[w].request.user_id)} :
                  workers' = [workers EXCEPT ![w] =
                      IF ~user_data.ok THEN Return(w, user_data)
                      ELSE [pc |-> "write_user_exists", request |-> workers[w].request,
                            user_data |-> [entry_ids |->
                                Append(user_data.val.entry_ids,
                                       workers[w].request.entry_id)]]]
    /\ UNCHANGED <<store, board_vars, walk, call, server_vars>>

\* write_user_data: `fs::exists(&path)` and the return of DoesNotExist
WorkerWriteUserExists ==
    /\ \E w \in Workers : workers[w].pc = "write_user_exists"
    /\ \E w \in Workers :
           /\ workers[w].pc = "write_user_exists"
           /\ workers' = [workers EXCEPT ![w] =
                  IF workers[w].request.user_id \notin DOMAIN store.users
                  THEN Return(w, Err("DoesNotExist"))
                  ELSE [workers[w] EXCEPT !.pc = "write_user_write"]]
    /\ UNCHANGED <<store, board_vars, walk, call, server_vars>>

\* write_user_data: `fs::write(path, data.into_data())`, then Ok(AddEntry)
WorkerWriteUserWrite ==
    /\ \E w \in Workers : workers[w].pc = "write_user_write"
    /\ \E w \in Workers :
           /\ workers[w].pc = "write_user_write"
           /\ store' = [store EXCEPT !.users =
                  File(@, workers[w].request.user_id,
                       UserData_into_data(workers[w].user_data))]
           /\ workers' = [workers EXCEPT ![w] = Return(w, Ok([type |-> "AddEntry"]))]
    /\ UNCHANGED <<board_vars, walk, call, server_vars>>

\* AddUser: `board.get_user_list()?` and `users.contains(&user_id)`
WorkerGetUserList ==
    /\ \E w \in Workers : workers[w].pc = "get_user_list"
    /\ \E w \in Workers :
           /\ workers[w].pc = "get_user_list"
           /\ \E users \in {get_user_list(store)} :
                  workers' = [workers EXCEPT ![w] =
                      IF ~users.ok THEN Return(w, users)
                      ELSE IF Contains(users.val, workers[w].request.user_id)
                           THEN Return(w, Err("AlreadyExists"))
                           ELSE Goto(w, "add_user")]
    /\ UNCHANGED <<store, board_vars, walk, call, server_vars>>

\* AddUser: `board.add_user(user_id)?`, then Ok(AddUser)
WorkerAddUser ==
    /\ \E w \in Workers : workers[w].pc = "add_user"
    /\ \E w \in Workers :
           /\ workers[w].pc = "add_user"
           /\ \E a \in {add_user(store, workers[w].request.user_id)} :
                  /\ store' = a.store
                  /\ workers' = [workers EXCEPT ![w] =
                         IF ~a.res.ok THEN Return(w, a.res)
                         ELSE Return(w, Ok([type |-> "AddUser"]))]
    /\ UNCHANGED <<board_vars, walk, call, server_vars>>

\* `response_tx.send(response)`: the handler waits for its next request
WorkerSend ==
    /\ \E w \in Workers : workers[w].pc = "done"
    /\ \E w \in Workers :
           /\ workers[w].pc = "done"
           /\ workers' = [workers EXCEPT ![w] = IdleWorker]
    /\ UNCHANGED <<store, board_vars, walk, call, server_vars>>

NextWorkers ==
    \/ WorkerRecv
    \/ WorkerHasAccessPerm
    \/ WorkerWriteEntryExists
    \/ WorkerWriteEntryWrite
    \/ WorkerGetUser
    \/ WorkerWriteUserExists
    \/ WorkerWriteUserWrite
    \/ WorkerGetUserList
    \/ WorkerAddUser
    \/ WorkerSend

SpecWorkers == InitWorkers /\ [][NextWorkers]_vars

(***************************************************************************)
(* The effects of AddEntry and AddUser on the store                        *)
(***************************************************************************)
\* the ids that have a file in s.entries after and had none before
NewEntryIds(old, new) == DOMAIN new.entries \ DOMAIN old.entries

\* C11: a successful AddEntry links the child into its parent.  After an
\* AddEntry under parent P that succeeds and stores the entry under id E, the
\* children_ids of P are the earlier ones followed by E, and reading E gives the
\* entry that was submitted.
C11_AddEntryLinksChild ==
    (request.type = "AddEntry" /\ response.ok) =>
        LET P == request.entry.header_data.parent_id
            E == request.entry_id
        IN  /\ NewEntryIds(before, store) = {E}
            /\ get_entry(store, E).ok
            /\ get_entry(store, E).val = request.entry
            /\ get_entry(store, P).ok
            /\ get_entry(store, P).val.header_data.children_ids
                   = get_entry(before, P).val.header_data.children_ids \o <<E>>

\* the workers that have returned Ok from an AddEntry and not yet taken their
\* next request
AddedBy(user_id) ==
    {w \in Workers : /\ workers[w].pc = "done"
                     /\ workers[w].request.type = "AddEntry"
                     /\ workers[w].request.user_id = user_id
                     /\ workers[w].result.ok}

\* C12: a successful AddEntry records authorship.  The id E of every AddEntry by
\* user U that has returned success is in read_user(U).entry_ids: no id of a
\* successful AddEntry is lost from the author's record.
C12_AuthorshipRecorded ==
    \A user_id \in UserIds : \A w \in AddedBy(user_id) :
        /\ get_user(store, user_id).ok
        /\ Contains(get_user(store, user_id).val.entry_ids, workers[w].request.entry_id)

\* requests handled one after the other: the author's record after a successful
\* AddEntry is the earlier record with the id appended; other records are as before
AppendedToRecord ==
    \A user_id \in UserIds :
        IF request.type = "AddEntry" /\ response.ok /\ user_id = request.user_id
        THEN /\ get_user(store, user_id).ok
             /\ get_user(store, user_id).val.entry_ids
                    = Append(get_user(before, user_id).val.entry_ids, request.entry_id)
        ELSE (request.type # "AddEntry" \/ response.ok)
                 => store.users[user_id] = before.users[user_id]

\* C13: the server alone assigns entry ids.  The id under which a successful
\* AddEntry stores the entry was free before, is carried by the AddEntry
\* response, and does not depend on an id named in the request.
C13_ServerAssignsIds ==
    (request.type = "AddEntry" /\ response.ok) =>
        /\ \E E \in EntryIds :
              /\ NewEntryIds(before, store) = {E}
              /\ "entry_id" \in DOMAIN response.val
              /\ response.val.entry_id = E
        /\ \A other \in EntryIds \ DOMAIN before.entries :
              NewEntryIds(before,
                          handle_request(before, [request EXCEPT !.entry_id = other]).store)
                  = NewEntryIds(before, store)

\* the handlers that have answered Ok to an AddEntry under parent_id
AddedUnder(parent_id) ==
    {w \in Workers :
        /\ workers[w].pc = "done"
        /\ workers[w].request.type = "AddEntry"
        /\ workers[w].request.entry.header_data.parent_id = parent_id
        /\ workers[w].result.ok}

\* how many times id occurs in the sequence
Occurrences(seq, id) == Cardinality({i \in DOMAIN seq : seq[i] = id})

\* C14: concurrent AddEntry under one parent loses no child.  When two handlers
\* at work at the same time have both answered Ok to an AddEntry under the same
\* parent, the two entries have different ids and the parent's children_ids
\* holds each of the two ids exactly once, whatever the interleaving was.
C14_NoLostChild ==
    \A parent_id \in DOMAIN store.entries :
        \A w1 \in AddedUnder(parent_id), w2 \in AddedUnder(parent_id) :
            w1 # w2 =>
                /\ workers[w1].request.entry_id # workers[w2].request.entry_id
                /\ get_entry(store, parent_id).ok
                /\ \A w \in {w1, w2} :
                       Occurrences(get_entry(store, parent_id).val.header_data.children_ids,
                                   workers[w].request.entry_id) = 1

\* add_user opens user_list with File::open, which is read-only, so its
\* write_all fails: no AddUser is answered Ok, by the handler run alone or by
\* handlers at work at the same time, and the user list never changes.
AddUserNeverSucceeds ==
    /\ request.type = "AddUser" => ~response.ok
    /\ \A w \in Workers :
           (workers[w].pc = "done" /\ workers[w].request.type = "AddUser")
               => ~workers[w].result.ok
    /\ store.user_list = before.user_list

\* C16: AddUser appends to the user list.  An AddUser for an id that the
\* readable user list does not hold is answered Ok; after it the user list is
\* the list before the request followed by that id, 8 bytes longer, no earlier
\* id lost or overwritten, and the user file of the id exists.
C16_AddUserAppends ==
    (/\ request.type = "AddUser"
     /\ get_user_list(before).ok
     /\ ~Contains(get_user_list(before).val, request.user_id))
    => /\ response.ok
       /\ get_user_list(store) = Ok(Append(get_user_list(before).val, request.user_id))
       /\ Len(store.user_list) = Len(before.user_list) + 8
       /\ request.user_id \in DOMAIN store.users

(***************************************************************************)
(* Specification SpecStore: write_entry and force_write_entry called on    *)
(* the board directory, one call after the other.  `call` holds the last   *)
(* call with its result and, in `prev`, the call before it.                *)
(***************************************************************************)
\* the entries the calls are given: a message and a group, written by user 1
\* under the root
CallEntries ==
    {[header_data |-> Header(ROOT_ID, <<>>, U64(1)), entry_data |-> data] :
        data \in {Message(U64(1), <<104, 105>>),
                  AccessGroup(<<104>>, Black(<<U64(2)>>), Black(<<U64(2)>>))}}

\* the last call without its own `prev`
Last == IF call = NoCall THEN NoCall
        ELSE [fn |-> call.fn, entry_id |-> call.entry_id, result |-> call.result]

InitStore ==
    /\ store \in {RootOnly(<<White(<<>>), White(<<>>)>>), Chain(<<White(<<>>), White(<<>>)>>)}
    /\ perm_field = "write_perms"
    /\ BoardInit
    /\ walk = NoWalk
    /\ CallInit
    /\ ServerInit

\* self.write_entry(entry_id, &entry)
CallWriteEntry ==
    /\ request = NoRequest
    /\ \E entry_id \in EntryIds, entry \in CallEntries :
           \E w \in {write_entry(store, entry_id, entry)} :
               /\ store' = w.store
               /\ call' = [fn |-> "write_entry", entry_id |-> entry_id, entry |-> entry,
                           result |-> w.res, prev |-> Last]
    /\ before' = store
    /\ UNCHANGED <<request, response, perm_field, walk, workers, server_vars>>

\* self.force_write_entry(entry_id, &entry)
CallForceWriteEntry ==
    /\ request = NoRequest
    /\ \E entry_id \in EntryIds, entry \in CallEntries :
           \E w \in {force_write_entry(store, entry_id, entry)} :
               /\ store' = w.store
               /\ call' = [fn |-> "force_write_entry", entry_id |-> entry_id,
                           entry |-> entry, result |-> w.res, prev |-> Last]
    /\ before' = store
    /\ UNCHANGED <<request, response, perm_field, walk, workers, server_vars>>

NextStore == CallWriteEntry \/ CallForceWriteEntry

SpecStore == InitStore /\ [][NextStore]_vars

\* C17: write-new versus force-write.  write_entry on an id whose file exists
\* returns AlreadyExists and leaves the store, and so the stored entry, as it
\* was; on an id without a file it succeeds and the entry read back is the one
\* given; force_write_entry on an existing id succeeds and the entry read back
\* is the one given.
C17_WriteNewVersusForce ==
    /\ call.fn = "write_entry" =>
          IF call.entry_id \in DOMAIN before.entries
          THEN /\ call.result = Err("AlreadyExists")
               /\ store = before
          ELSE /\ call.result.ok
               /\ get_entry(store, call.entry_id) = Ok(call.entry)
    /\ (call.fn = "force_write_entry" /\ call.entry_id \in DOMAIN before.entries) =>
          /\ call.result.ok
          /\ get_entry(store, call.entry_id) = Ok(call.entry)

\* write_entry was refused on an existing id and force_write_entry, called next
\* on the same id, replaced the stored entry with a different one
C17_Witness ==
    /\ call.fn = "force_write_entry"
    /\ call.prev.fn = "write_entry"
    /\ call.prev.entry_id = call.entry_id
    /\ call.prev.result = Err("AlreadyExists")
    /\ call.result.ok
    /\ get_entry(before, call.entry_id).ok
    /\ get_entry(before, call.entry_id).val # call.entry
    /\ get_entry(store, call.entry_id) = Ok(call.entry)

(***************************************************************************)
(* Specification SpecCodec: the conversions of lib.rs applied to values.   *)
(* `call` starts as a value of one of the four types (`at` = "value"); its *)
(* into_data gives the bytes (`at` = "data") and the type's from_data, on  *)
(* those bytes, the result (`at` = "result").                              *)
(***************************************************************************)
\* u64::MAX
MAX_U64 == [i \in 1..8 |-> 255]

\* ids, lists of ids and strings (as UTF-8: "", "hi", and U+00E9 U+1F4A9)
CodecIds == {U64(0), U64(1), MAX_U64}
CodecVecs == {<<>>, <<U64(1)>>, <<MAX_U64, U64(2)>>}
CodecStrings == {<<>>, <<104, 105>>, <<195, 169, 240, 159, 146, 169>>}

\* the three shapes of DefaultedIdSet
CodecIdSets ==
    {Inherit(whitelist, blacklist) : whitelist \in CodecVecs, blacklist \in CodecVecs}
    \cup {White(blacklist) : blacklist \in CodecVecs}
    \cup {Black(whitelist) : whitelist \in CodecVecs}

\* entries as the tests build them: version ENTRY_FILE_VERSION, a message or an
\* access group
CodecEntries ==
    {[header_data |-> Header(parent_id, children_ids, U64(1)), entry_data |-> data] :
        parent_id \in {U64(0), MAX_U64},
        children_ids \in CodecVecs,
        data \in {Message(timestamp, message) :
                     timestamp \in {U64(0), MAX_U64}, message \in CodecStrings}
                 \cup {AccessGroup(name, write_perms, read_perms) :
                     name \in CodecStrings,
                     write_perms \in CodecIdSets, read_perms \in CodecIdSets}}

CodecUsers == {[entry_ids |-> entry_ids] : entry_ids \in CodecVecs}

\* lib.rs' BoardRequest: AddEntry { user_id, entry } and AddUser
CodecRequests ==
    {[type |-> "GetEntry", user_id |-> user_id, entry_id |-> entry_id] :
        user_id \in CodecIds, entry_id \in CodecIds}
    \cup {[type |-> "AddEntry", user_id |-> user_id, entry |-> entry] :
        user_id \in {U64(1), MAX_U64}, entry \in CodecEntries}
    \cup {[type |-> "GetUser", user_id |-> user_id] : user_id \in CodecIds}
    \cup {[type |-> "AddUser"]}

\* lib.rs' MaybeBoardResponse: Ok of the four variants and Err of every kind
CodecResponses ==
    {Ok([type |-> "GetEntry", entry |-> entry]) : entry \in CodecEntries}
    \cup {Ok([type |-> "AddEntry", entry_id |-> entry_id]) : entry_id \in CodecIds}
    \cup {Ok([type |-> "GetUser", user |-> user]) : user \in CodecUsers}
    \cup {Ok([type |-> "AddUser", user_id |-> user_id]) : user_id \in CodecIds}
    \cup {Err(e) : e \in DataErrors}

Value(fn, value) == [fn |-> fn, at |-> "value", value |-> value]

InitCodec ==
    /\ store = RootOnly(<<White(<<>>), White(<<>>)>>)
    /\ perm_field = "write_perms"
    /\ BoardInit
    /\ walk = NoWalk
    /\ workers = [w \in Workers |-> IdleWorker]
    /\ call \in {Value("Entry", v) : v \in CodecEntries}
           \cup {Value("UserData", v) : v \in CodecUsers}
           \cup {Value("BoardRequest", v) : v \in CodecRequests}
           \cup {Value("BoardResponse", v) : v \in CodecResponses}
           \cup {Value("DefaultedIdSet", v) : v \in CodecIdSets}
    /\ ServerInit

\* the value's bytes are made
IntoData(fn, data) ==
    /\ call' = [fn |-> fn, at |-> "data", value |-> call.value, data |-> data]
    /\ UNCHANGED <<store, board_vars, walk, workers, server_vars>>

\* the bytes are decoded
FromData(fn, result) ==
    /\ call' = [call EXCEPT !.at = "result"] @@ [result |-> result]
    /\ UNCHANGED <<store, board_vars, walk, workers, server_vars>>

\* entry.into_data()
Entry_IntoData ==
    /\ call.fn = "Entry" /\ call.at = "value"
    /\ \E data \in {Entry_into_data(call.value)} : IntoData("Entry", data)

\* Entry::from_data(&data)
Entry_FromData ==
    /\ call.fn = "Entry" /\ call.at = "data"
    /\ \E result \in {Entry_from_data(call.data)} : FromData("Entry", result)

\* user.into_data()
UserData_IntoData ==
    /\ call.fn = "UserData" /\ call.at = "value"
    /\ \E data \in {UserData_into_data(call.value)} : IntoData("UserData", data)

\* UserData::from_data(&data)
UserData_FromData ==
    /\ call.fn = "UserData" /\ call.at = "data"
    /\ \E result \in {UserData_from_data(call.data)} : FromData("UserData", result)

\* request.into_data()
BoardRequest_IntoData ==
    /\ call.fn = "BoardRequest" /\ call.at = "value"
    /\ \E data \in {BoardRequest_into_data(call.value)} : IntoData("BoardRequest", data)

\* BoardRequest::from_data(&data)
BoardRequest_FromData ==
    /\ call.fn = "BoardRequest" /\ call.at = "data"
    /\ \E result \in {BoardRequest_from_data(call.data)} : FromData("BoardRequest", result)

\* BoardResponse::into_data(&response)
BoardResponse_IntoData ==
    /\ call.fn = "BoardResponse" /\ call.at = "value"
    /\ \E data \in {BoardResponse_into_data(call.value)} : IntoData("BoardResponse", data)

\* BoardResponse::from_data(&data)
BoardResponse_FromData ==
    /\ call.fn = "BoardResponse" /\ call.at = "data"
    /\ \E result \in {BoardResponse_from_data(call.data)} : FromData("BoardResponse", result)

\* set.contains(id)
DefaultedIdSet_Contains ==
    /\ call.fn = "DefaultedIdSet" /\ call.at = "value"
    /\ \E id \in CodecIds \cup {U64(2)} :
           \E result \in {DefaultedIdSet_contains(call.value, id)} :
               call' = [fn |-> "DefaultedIdSet", at |-> "contains", value |-> call.value,
                        id |-> id, result |-> result]
    /\ UNCHANGED <<store, board_vars, walk, workers, server_vars>>

NextCodec ==
    \/ Entry_IntoData
    \/ Entry_FromData
    \/ UserData_IntoData
    \/ UserData_FromData
    \/ BoardRequest_IntoData
    \/ BoardRequest_FromData
    \/ BoardResponse_IntoData
    \/ BoardResponse_FromData
    \/ DefaultedIdSet_Contains

SpecCodec == InitCodec /\ [][NextCodec]_vars

\* C18: round trip of stored records.  For every entry (a message or an access
\* group with any of the three shapes of DefaultedIdSet) Entry::from_data of
\* the entry's into_data is Ok of the entry, and for every user record
\* UserData::from_data of its into_data is Ok of the record.
C18_RecordRoundTrip ==
    (call.fn \in {"Entry", "UserData"} /\ call.at = "result") =>
        call.result = Ok(call.value)

\* an access group with a child, whose write_perms is an Inherit set with ids in
\* both lists and whose name is not ASCII, was encoded and decoded to itself
C18_Witness ==
    /\ call.fn = "Entry"
    /\ call.at = "result"
    /\ call.value.entry_data.type = "AccessGroup"
    /\ call.value.entry_data.write_perms = Inherit(<<U64(1)>>, <<MAX_U64, U64(2)>>)
    /\ call.value.entry_data.read_perms.base = "Black"
    /\ call.value.entry_data.name = <<195, 169, 240, 159, 146, 169>>
    /\ call.value.header_data.children_ids # <<>>
    /\ call.data # <<>>
    /\ call.result = Ok(call.value)

\* C19: round trip of wire messages.  For every request (GetEntry, AddEntry,
\* GetUser, AddUser) BoardRequest::from_data of its into_data is Ok of the
\* request, and for every successful response (GetEntry, AddEntry, GetUser,
\* AddUser) BoardResponse::from_data of BoardResponse::into_data(Ok(response))
\* is Ok(response).
C19_WireRoundTrip ==
    /\ (call.fn = "BoardRequest" /\ call.at = "result") =>
           call.result = Ok(call.value)
    /\ (call.fn = "BoardResponse" /\ call.at = "result" /\ call.value.ok) =>
           call.result = call.value

\* an AddEntry request carrying an access group was encoded and decoded to itself
C19_Witness ==
    /\ call.fn = "BoardRequest"
    /\ call.at = "result"
    /\ call.value.type = "AddEntry"
    /\ call.value.user_id = MAX_U64
    /\ call.value.entry.entry_data.type = "AccessGroup"
    /\ call.value.entry.entry_data.read_perms = Inherit(<<MAX_U64, U64(2)>>, <<U64(1)>>)
    /\ Len(call.data) > 10
    /\ call.result = Ok(call.value)

\* a successful AddUser response carrying an id was encoded and decoded to itself
C19_ResponseReached ==
    /\ call.fn = "BoardResponse"
    /\ call.at = "result"
    /\ call.value = Ok([type |-> "AddUser", user_id |-> MAX_U64])
    /\ call.result = call.value

\* C20: error erasure on the wire.  For every error kind e the bytes of
\* BoardResponse::into_data(Err(e)) are the version byte 0x00 and then 0xff,
\* the same for every e, and BoardResponse::from_data of those two bytes is
\* Err(InternalError).
C20_ErrorErasure ==
    (call.fn = "BoardResponse" /\ ~call.value.ok) =>
        /\ call.at \in {"data", "result"} => call.data = <<0, 255>>
        /\ call.at = "result" => call.result = Err("InternalError")

\* an error other than InternalError was encoded and came back as InternalError
C20_Witness ==
    /\ call.fn = "BoardResponse"
    /\ call.at = "result"
    /\ call.value = Err("InsufficientPerms")
    /\ call.data = <<0, 255>>
    /\ call.result = Err("InternalError")

(***************************************************************************)
(* Specification SpecDecode: the decoders of lib.rs applied to byte        *)
(* strings that are not the encoding of a value: an encoding with one byte *)
(* replaced, cut short, or with other first two bytes.  `call` starts with *)
(* the bytes (`at` = "data"); from_data gives the result.                  *)
(***************************************************************************)
\* the bytes put in place of a byte of an encoding
DecodeBytes == {0, 1, 2, 3, 32, 33, 128, 255}
\* the pairs put in place of its first two bytes: the two magic numbers, low
\* byte first and high byte first, and others
DecodeHeads ==
    {<<52, 18>>, <<18, 52>>, <<112, 20>>, <<20, 112>>, <<52, 20>>, <<112, 18>>,
     <<0, 0>>, <<255, 255>>}

Mutations(d) ==
    {[d EXCEPT ![i] = b] : i \in DOMAIN d, b \in DecodeBytes}
    \cup {Take(d, n) : n \in 0..Len(d)}
    \cup {h \o Drop(d, 2) : h \in DecodeHeads}
    \cup DecodeHeads

\* a message with a child and an access group with ids in its sets
DecodeEntries ==
    {[header_data |-> Header(U64(0), <<U64(1)>>, U64(1)),
      entry_data |-> Message(U64(1), <<104, 105>>)],
     [header_data |-> Header(U64(1), <<>>, U64(2)),
      entry_data |-> AccessGroup(<<104, 105>>, Inherit(<<U64(1)>>, <<MAX_U64, U64(2)>>),
                                 Black(<<U64(1)>>))]}

\* the byte strings each decoder is given
DecodeInputs(fn) ==
    UNION {Mutations(d) : d \in
        CASE fn = "Entry" -> {Entry_into_data(e) : e \in DecodeEntries}
          [] fn = "UserData" -> {UserData_into_data([entry_ids |-> <<MAX_U64, U64(2)>>])}
          [] fn = "DefaultedIdSet" ->
                {DefaultedIdSet_extend_data(set) :
                    set \in {Inherit(<<U64(1)>>, <<MAX_U64, U64(2)>>), White(<<U64(1)>>),
                             Black(<<>>)}}
          [] fn = "BoardRequest" ->
                {BoardRequest_into_data(req) : req \in
                    {[type |-> "GetEntry", user_id |-> U64(1), entry_id |-> U64(2)],
                     [type |-> "GetUser", user_id |-> U64(1)],
                     [type |-> "AddUser"]}
                    \cup {[type |-> "AddEntry", user_id |-> U64(1), entry |-> e] :
                            e \in DecodeEntries}}
          [] fn = "BoardResponse" ->
                {BoardResponse_into_data(res) : res \in
                    {Ok([type |-> "AddEntry", entry_id |-> U64(1)]),
                     Ok([type |-> "GetUser", user |-> [entry_ids |-> <<U64(1)>>]]),
                     Ok([type |-> "AddUser", user_id |-> U64(2)]),
                     Err("InternalError")}
                    \cup {Ok([type |-> "GetEntry", entry |-> e]) : e \in DecodeEntries}}}

InitDecode ==
    /\ store = RootOnly(<<White(<<>>), White(<<>>)>>)
    /\ perm_field = "write_perms"
    /\ BoardInit
    /\ walk = NoWalk
    /\ workers = [w \in Workers |-> IdleWorker]
    /\ call \in {[fn |-> fn, at |-> "data", data |-> data] :
                    fn \in {"Entry"}, data \in DecodeInputs("Entry")}
           \cup {[fn |-> fn, at |-> "data", data |-> data] :
                    fn \in {"UserData"}, data \in DecodeInputs("UserData")}
           \cup {[fn |-> fn, at |-> "data", data |-> data] :
                    fn \in {"DefaultedIdSet"}, data \in DecodeInputs("DefaultedIdSet")}
           \cup {[fn |-> fn, at |-> "data", data |-> data] :
                    fn \in {"BoardRequest"}, data \in DecodeInputs("BoardRequest")}
           \cup {[fn |-> fn, at |-> "data", data |-> data] :
                    fn \in {"BoardResponse"}, data \in DecodeInputs("BoardResponse")}
    /\ ServerInit

\* DefaultedIdSet::from_data_iter(&mut data_iter): the set and what is left
DefaultedIdSet_FromData ==
    /\ call.fn = "DefaultedIdSet" /\ call.at = "data"
    /\ \E result \in {DefaultedIdSet_from_data_iter(call.data)} :
           FromData("DefaultedIdSet", result)

NextDecode ==
    \/ Entry_FromData
    \/ UserData_FromData
    \/ DefaultedIdSet_FromData
    \/ BoardRequest_FromData
    \/ BoardResponse_FromData

SpecDecode == InitDecode /\ [][NextDecode]_vars

\* C21: magic rejection.  Entry::from_data of at least two bytes whose first
\* two are not 0x34 0x12 (0x1234, low byte first) is IncorrectMagicNum, and
\* UserData::from_data of at least two bytes whose first two are not 0x70 0x14
\* (0x1470) is IncorrectMagicNum, whatever bytes follow.
C21_MagicRejection ==
    (call.at = "result" /\ Len(call.data) >= 2) =>
        /\ (call.fn = "Entry" /\ SubSeq(call.data, 1, 2) # <<52, 18>>)
               => call.result = Err("IncorrectMagicNum")
        /\ (call.fn = "UserData" /\ SubSeq(call.data, 1, 2) # <<112, 20>>)
               => call.result = Err("IncorrectMagicNum")

\* an entry's encoding that starts with the magic's bytes in the other order,
\* and is otherwise whole, was decoded as an Entry and refused
C21_Witness ==
    /\ call.fn = "Entry"
    /\ call.at = "result"
    /\ Len(call.data) > 30
    /\ SubSeq(call.data, 1, 2) = <<18, 52>>
    /\ call.result = Err("IncorrectMagicNum")

\* the encodings of entries and of user records that `data` is the beginning
\* of, without being the whole
CutShortOf(fn, data) ==
    {d \in (IF fn = "Entry" THEN {Entry_into_data(e) : e \in DecodeEntries}
            ELSE {UserData_into_data([entry_ids |-> <<MAX_U64, U64(2)>>])}) :
        Len(data) < Len(d) /\ data = Take(d, Len(data))}

\* the message length the bytes of an entry announce: the u32 after the header
\* (30 bytes and 8 for each child) and the timestamp
AnnouncedMessageSize(data, entry) ==
    from_le_bytes(SubSeq(data, 39 + 8 * Len(entry.header_data.children_ids),
                               42 + 8 * Len(entry.header_data.children_ids)))

\* C22: truncation rejection.  Decoding a record whose bytes end before what a
\* length or count prefix announces (here: any proper beginning of the
\* encoding of an entry or of a user record) returns InsufficientBytes, and a
\* decoded message never is shorter than the length its prefix announced.
C22_TruncationRejection ==
    (call.fn \in {"Entry", "UserData"} /\ call.at = "result") =>
        /\ CutShortOf(call.fn, call.data) # {} => call.result = Err("InsufficientBytes")
        /\ (call.fn = "Entry" /\ call.result.ok
                /\ call.result.val.entry_data.type = "Message")
              => Len(call.result.val.entry_data.message)
                     = AnnouncedMessageSize(call.data, call.result.val)

\* data is the encoding of one of the entries with another type byte (the
\* fourth byte) and nothing else changed
OtherwiseCompleteEntry(data) ==
    \E e \in DecodeEntries :
        /\ Len(data) = Len(Entry_into_data(e))
        /\ \A i \in DOMAIN data : i # 4 => data[i] = Entry_into_data(e)[i]

\* C23: discriminant rejection.  Decoding an otherwise complete Entry whose
\* type byte is not 0x00 or 0x01, a DefaultedIdSet whose base byte is not 0x00,
\* 0x01 or 0x02, a request (version 0) whose discriminant is not 0x00, 0x01,
\* 0x20 or 0x21, or a response (version 0) whose discriminant is not one of
\* these or 0xff, returns InvalidDiscriminant.
C23_DiscriminantRejection ==
    call.at = "result" =>
        /\ (call.fn = "Entry" /\ OtherwiseCompleteEntry(call.data)
                /\ call.data[4] \notin {0, 1})
              => call.result = Err("InvalidDiscriminant")
        /\ (call.fn = "DefaultedIdSet" /\ Len(call.data) >= 1
                /\ call.data[1] \notin {0, 1, 2})
              => call.result = Err("InvalidDiscriminant")
        /\ (call.fn = "BoardRequest" /\ Len(call.data) >= 2 /\ call.data[1] = 0
                /\ call.data[2] \notin {0, 1, 32, 33})
              => call.result = Err("InvalidDiscriminant")
        /\ (call.fn = "BoardResponse" /\ Len(call.data) >= 2 /\ call.data[1] = 0
                /\ call.data[2] \notin {0, 1, 32, 33, 255})
              => call.result = Err("InvalidDiscriminant")

\* the bytes of an Inherit set with ids in both lists and the base byte 3 were
\* decoded as a DefaultedIdSet and refused
C23_Witness ==
    /\ call.fn = "DefaultedIdSet"
    /\ call.at = "result"
    /\ Len(call.data) > 20
    /\ call.data[1] = 3
    /\ call.result = Err("InvalidDiscriminant")

\* an entry whole but for its type byte 0x02, and a request and a response with
\* the discriminant 0x80, were refused
C23_OthersReached ==
    /\ call.at = "result"
    /\ call.result = Err("InvalidDiscriminant")
    /\ \/ call.fn = "Entry" /\ OtherwiseCompleteEntry(call.data) /\ call.data[4] = 2
       \/ call.fn \in {"BoardRequest", "BoardResponse"} /\ Len(call.data) > 10
              /\ call.data[1] = 0 /\ call.data[2] = 128

\* the ids of a list
IdsOf(vec) == {vec[i] : i \in DOMAIN vec}

\* C24: DefaultedIdSet.contains matches its table.  White{B} gives Some(false)
\* iff the id is in B, else Some(true); Black{W} gives Some(true) iff the id is
\* in W, else Some(false); Inherit{W,B} gives Some(true) iff the id is in W and
\* not in B, Some(false) iff it is in B and not in W, and None when it is in
\* neither or in both; White and Black never give None.
C24_ContainsTable ==
    (call.fn = "DefaultedIdSet" /\ call.at = "contains") =>
        LET set == call.value
            id == call.id
            SomeTrue == call.result = [some |-> TRUE]
            SomeFalse == call.result = [some |-> FALSE]
            IsNone == call.result = [none |-> TRUE]
        IN  /\ SomeTrue \/ SomeFalse \/ IsNone
            /\ set.base = "White" =>
                  /\ SomeFalse <=> id \in IdsOf(set.blacklist_ids)
                  /\ SomeTrue <=> id \notin IdsOf(set.blacklist_ids)
            /\ set.base = "Black" =>
                  /\ SomeTrue <=> id \in IdsOf(set.whitelist_ids)
                  /\ SomeFalse <=> id \notin IdsOf(set.whitelist_ids)
            /\ set.base = "Inherit" =>
                  /\ SomeTrue <=> (id \in IdsOf(set.whitelist_ids)
                                      /\ id \notin IdsOf(set.blacklist_ids))
                  /\ SomeFalse <=> (id \in IdsOf(set.blacklist_ids)
                                      /\ id \notin IdsOf(set.whitelist_ids))
                  /\ IsNone <=> (id \in IdsOf(set.whitelist_ids)
                                      <=> id \in IdsOf(set.blacklist_ids))

\* contains gave None for an id that is in both lists of an Inherit set
C24_Witness ==
    /\ call.fn = "DefaultedIdSet"
    /\ call.at = "contains"
    /\ call.value.base = "Inherit"
    /\ call.id \in IdsOf(call.value.whitelist_ids)
    /\ call.id \in IdsOf(call.value.blacklist_ids)
    /\ Len(call.value.whitelist_ids) = 2
    /\ call.result = [none |-> TRUE]

(***************************************************************************)
(* The pipeline's contracts: ordering, routing, dropped connections        *)
(***************************************************************************)
\* the bytes of the oldest frame a connection has to read: the 8 bytes of
\* length and as many bytes as they announce
OldestFrame(readable) == Take(readable, 8 + from_le_bytes(Take(readable, 8)))

\* the messages of a sequence of (id, message) that are for connection c
MessagesFor(queue, c) ==
    Let(SelectSeq(queue, LAMBDA m : m[1] = c), LAMBDA mine :
    [i \in 1..Len(mine) |-> mine[i][2]])

Outstanding(h) ==
    Len(handler_rx[h]) + Len(SelectSeq(response_rx, LAMBDA r : r.handler_id = h))

\* C26: response routing.  A slot of handler_clients is filled with the id of
\* the connection only when that connection's request is sent to the handler,
\* and stays as it is until the handler's response is received; a handler with
\* a request or a response outstanding has one of them and a filled slot (the
\* `expect` does not fail); when the response of handler h is received the slot
\* is cleared and the pair sent to the egress thread is (that id, the response).
C26_ResponseRouting ==
    /\ [](\A h \in Handlers :
              /\ Outstanding(h) <= 1
              /\ Outstanding(h) = 1 <=> handler_clients[h] # None)
    /\ [][/\ \A h \in Handlers :
                 handler_clients'[h] # handler_clients[h] =>
                     IF handler_clients[h] = None
                     THEN /\ incoming_queue # <<>>
                          /\ handler_clients'[h] = Head(incoming_queue)[1]
                          /\ handler_rx'[h] = Append(handler_rx[h], Head(incoming_queue)[2])
                          /\ incoming_queue' = Tail(incoming_queue)
                     ELSE /\ response_rx # <<>>
                          /\ Head(response_rx).handler_id = h
                          /\ handler_clients'[h] = None
          /\ Len(response_rx') < Len(response_rx) =>
                 \E r \in {Head(response_rx)} :
                     /\ response_rx' = Tail(response_rx)
                     /\ handler_clients[r.handler_id] \in Conns
                     /\ handler_clients'[r.handler_id] = None
                     /\ outgoing_queue' =
                            Append(outgoing_queue, <<handler_clients[r.handler_id], r.data>>)
         ]_vars

\* the response of the second handler has been forwarded, with the connection
\* of its slot, while the first handler holds a request
C26_Witness ==
    /\ handler_clients[0] \in Conns
    /\ handler_clients[1] = None
    /\ outgoing_queue # <<>>
    /\ Outstanding(0) = 1

\* C27: the dispatcher serializes each connection's requests.  No two
\* handlers hold requests of the same connection at the same time.
C27_ConnectionSerialized ==
    \A h, g \in Handlers :
        (h # g /\ handler_clients[h] # None) => handler_clients[h] # handler_clients[g]

SocketError(c) ==
    \/ client_pc[c] = "aborted"
    \/ ingress_log.id = c /\ "error" \in DOMAIN ingress_log

\* C29: socket errors drop the connection.  Under fair scheduling of the
\* server's threads, a connection on which peek, read_exact or write_all has
\* returned an Err is in the end out of client_id_map, out of the ingress
\* thread's clients_read and out of the egress thread's clients_write.
C29_SocketErrorsDrop ==
    \A c \in Conns :
        SocketError(c) ~>
            /\ c \notin client_id_map
            /\ \A i \in DOMAIN clients_read : clients_read[i] # c
            /\ c \notin clients_write

\* the connection has a whole frame for the server to read
CompleteFrame(c) ==
    \E readable \in {Readable(inbound[c])} :
        Len(readable) >= 8 /\ Len(OldestFrame(readable)) = 8 + from_le_bytes(Take(readable, 8))

\* C30: the ingress thread does not stall on one connection.  Under fair
\* scheduling of the server's threads, a whole frame that waits on a connection
\* of clients_read is read, whatever the other connections have or have not
\* sent.
C30_IngressDoesNotStall ==
    \A c \in Conns :
        (/\ \E i \in DOMAIN clients_read : clients_read[i] = c
         /\ received[c] = 0
         /\ CompleteFrame(c))
            ~> (received[c] >= 1)

(***************************************************************************)
(* The dispatcher's bookkeeping and the egress thread's unresolved buffer  *)
(***************************************************************************)
\* C31: dispatcher bookkeeping.  At the top of the dispatcher loop num_active
\* is the number of filled slots of handler_clients, which is the number of
\* handlers with a request or a response outstanding, and it lies in
\* 0..num_threads, so that neither recovery branch is taken.
C31_DispatcherBookkeeping ==
    /\ num_active = Cardinality({h \in Handlers : handler_clients[h] # None})
    /\ num_active = Cardinality({h \in Handlers : Outstanding(h) >= 1})
    /\ num_active \in 0..num_threads

\* every handler holds a request and a further one waits in the channel
C31_Witness ==
    /\ num_active = num_threads
    /\ \A h \in Handlers : handler_clients[h] \in Conns
    /\ incoming_queue # <<>>

\* C32: the dispatcher loses no request.  A request that leaves the incoming
\* channel is appended to the channel of exactly one handler, whose slot was
\* None and is now the request's connection, and no other handler's channel
\* grows; a request is taken only in a state with a slot that is None.
C32_NoRequestLost ==
    [][incoming_queue' # incoming_queue =>
           /\ incoming_queue # <<>>
           /\ incoming_queue' = Tail(incoming_queue)
           /\ \E h \in Handlers :
                  /\ handler_clients[h] = None
                  /\ handler_rx'[h] = Append(handler_rx[h], Head(incoming_queue)[2])
                  /\ handler_clients'[h] = Head(incoming_queue)[1]
                  /\ \A g \in Handlers \ {h} : handler_rx'[g] = handler_rx[g]
      ]_vars

\* the requests that waited have all been handled and their responses
\* forwarded, one for each, with every handler free again
C32_Witness ==
    /\ received[0] + received[1] = MaxQueued
    /\ incoming_queue = <<>>
    /\ Len(outgoing_queue) = MaxQueued
    /\ \A h \in Handlers : handler_clients[h] = None /\ Outstanding(h) = 0
    /\ num_active = 0

\* the bytes do not begin with the version and a discriminant of a request, and
\* BoardRequest::from_data refuses them
Undecodable(payload) ==
    /\ \/ Len(payload) < 2
       \/ payload[1] # REQUEST_FORMAT_VERSION
       \/ payload[2] \notin {GET_ENTRY, ADD_ENTRY, GET_USER, ADD_USER}
    /\ ~BoardRequest_from_data(payload).ok

\* C33: undecodable frames are discarded silently.  When the ingress thread
\* takes a frame whose payload (the bytes after the 8 of length) is no request,
\* the frame leaves the connection and the next one starts where it ended,
\* nothing is sent on the incoming channel, nothing is written, and the
\* connection stays in client_id_map.
C33_UndecodableDiscarded ==
    [][\A c \in Conns :
           received'[c] # received[c] =>
               \E frame \in {OldestFrame(Readable(inbound[c]))} :
                   Undecodable(Drop(frame, 8)) =>
                       /\ Readable(inbound'[c]) = Drop(Readable(inbound[c]), Len(frame))
                       /\ incoming_queue' = incoming_queue
                       /\ outbound' = outbound
                       /\ c \in client_id_map'
      ]_vars
\* what write_all puts on connection c for a sequence of messages
WrittenOn(c, messages) ==
    IF client_pc[c] \in {"reset", "aborted"} THEN <<>>
    ELSE [i \in 1..Len(messages) |->
             [message |-> messages[i], bytes |-> BoardResponse_into_data(messages[i])]]

\* the responses the egress thread holds for connections it does not have: the
\* ones it kept before and the ones of the outgoing channel it cannot write
Pending ==
    unresolved_messages \o SelectSeq(outgoing_queue, LAMBDA m : m[1] \notin clients_write)

\* C34: egress retry of unresolved responses.  In an iteration of the egress
\* thread that holds responses for connections outside clients_write, either
\* the registry was not read and all of them are kept, in order, none written;
\* or the registry was read and none is kept: each is written once, after the
\* iteration's other writes, if its connection is in the refreshed
\* clients_write, and dropped otherwise.
C34_UnresolvedRetry ==
    [][(/\ outgoing_queue' = <<>>
        /\ \/ outgoing_queue # <<>>
           \/ unresolved_messages' # unresolved_messages
           \/ clients_write' # clients_write
        /\ Pending # <<>>)
       => \/ /\ unresolved_messages' = Pending
             /\ clients_write' = clients_write
             /\ \A c \in Conns :
                    outbound'[c] = outbound[c] \o
                        WrittenOn(c, IF c \in clients_write
                                     THEN MessagesFor(outgoing_queue, c) ELSE <<>>)
          \/ /\ unresolved_messages' = <<>>
             /\ clients_write' = client_id_map
             /\ \A c \in Conns :
                    outbound'[c] = outbound[c] \o
                        WrittenOn(c, IF c \in clients_write
                                     THEN MessagesFor(outgoing_queue, c) ELSE <<>>) \o
                        WrittenOn(c, IF c \in clients_write'
                                     THEN MessagesFor(Pending, c) ELSE <<>>)
      ]_vars

\* responses are kept for a registered connection and for one that is not,
\* more than one of them for the registered one
C34_Witness ==
    /\ client_id_map = Conns \ {0}
    /\ clients_write = {}
    /\ Len(MessagesFor(unresolved_messages, 1)) >= 2
    /\ Len(MessagesFor(unresolved_messages, 0)) >= 1
    /\ outgoing_queue # <<>>

\* C35: entries are write-once under concurrency.  A handler writes the file of
\* an entry id only when the id has no file, and no step of a handler changes
\* the content stored under an id: of two AddEntry for one id handled at the
\* same time at most one writes, and what it stored is not replaced.
C35_WriteOnce ==
    [][\A entry_id \in DOMAIN store.entries :
           /\ entry_id \in DOMAIN store'.entries
           /\ store'.entries[entry_id] = store.entries[entry_id]
      ]_vars

\* C36: no lost update on a user record.  When two handlers at work at the
\* same time have both answered Ok to an AddEntry by the same user_id, the
\* entry_ids of that user's record hold the entry id of each of the two.
C36_NoLostUpdate ==
    \A user_id \in UserIds :
        \A w1 \in AddedBy(user_id), w2 \in AddedBy(user_id) :
            w1 # w2 =>
                /\ get_user(store, user_id).ok
                /\ Contains(get_user(store, user_id).val.entry_ids,
                            workers[w1].request.entry_id)
                /\ Contains(get_user(store, user_id).val.entry_ids,
                            workers[w2].request.entry_id)

(***************************************************************************)
(* Specification SpecAuthors: handle_request given AddEntry requests whose *)
(* user_id and whose entry's author_id are any u64, of a user with a       *)
(* record or of none                                                       *)
(***************************************************************************)
\* the ids of the users with a record and one id more
AnyUserIds == {U64(n) : n \in 1..(NumUsers + 1)}

\* an AddEntry as a peer may frame it: user_id and header_data.author_id are
\* two fields of the request, neither bound to the other
AddEntryBy ==
    /\ request = NoRequest
    /\ \E user_id \in AnyUserIds, author_id \in AnyUserIds,
          entry_id \in EntryIds, parent_id \in EntryIds :
           Handle(AddEntryRequest(user_id, entry_id,
                      [header_data |-> Header(parent_id, <<>>, author_id),
                       entry_data |-> Message(U64(1), <<104, 105>>)]))

NextAuthors == AddEntryBy \/ GetEntry \/ GetUser \/ AddUser \/ SendResponse

SpecAuthors == Init /\ [][NextAuthors]_vars

\* C37: the author exists at creation.  An entry file that an AddEntry has
\* created holds an author_id of a user whose record existed before the
\* request, and the request's user_id has a record too: an AddEntry by a
\* user_id without a record, or for an entry whose author_id names no user,
\* creates no entry file.
C37_AuthorExists ==
    request.type = "AddEntry" =>
        \A E \in NewEntryIds(before, store) :
            /\ request.user_id \in DOMAIN before.users
            /\ get_entry(store, E).ok
            /\ get_entry(store, E).val.header_data.author_id \in DOMAIN before.users

\* the entries of the store whose parent_id is the id of a stored entry, other
\* than the root
ParentsStored(s) ==
    \A E \in DOMAIN s.entries \ {ROOT_ID} :
        /\ get_entry(s, E).ok
        /\ get_entry(s, E).val.header_data.parent_id \in DOMAIN s.entries

\* C38: the parent existence invariant.  From a store that holds only a valid
\* root, every stored entry other than the root has a parent_id that is the id
\* of a stored entry, and an AddEntry whose parent_id names no stored entry
\* fails and creates no entry file.
C38_ParentExists ==
    /\ ParentsStored(store)
    /\ (/\ request.type = "AddEntry"
        /\ request.entry.header_data.parent_id \notin DOMAIN before.entries)
       => /\ ~response.ok
          /\ NewEntryIds(before, store) = {}

\* an AddEntry under a parent that is not stored has been refused
C38_Witness ==
    /\ request.type = "AddEntry"
    /\ request.entry.header_data.parent_id \notin DOMAIN before.entries
    /\ request.entry_id \notin DOMAIN before.entries
    /\ response = Err("DoesNotExist")
    /\ store = before
    /\ DOMAIN store.entries \ {ROOT_ID} # {}

(***************************************************************************)
(* Specification SpecRoot: the handlers of SpecWorkers, given also         *)
(* AddEntry requests that name the root's id and requests that only read   *)
(***************************************************************************)
\* the requests of SpecWorkers, AddEntry for the id of the root, and reads
RootRequests ==
    WorkerRequests
    \cup {AddEntryRequest(user_id, ROOT_ID,
                          [header_data |-> Header(parent_id, <<>>, user_id),
                           entry_data |-> Message(U64(1), <<104, 105>>)]) :
             user_id \in UserIds, parent_id \in {ROOT_ID, U64(1)}}
    \cup {GetEntryRequest(U64(1), ROOT_ID), GetUserRequest(U64(1))}

\* `for request in rx`: a waiting handler is sent a request
WorkerRecvAny ==
    /\ \E w \in Workers : workers[w].pc = "idle"
    /\ \E w \in Workers, req \in RootRequests :
           /\ workers[w].pc = "idle"
           /\ workers' = [workers EXCEPT ![w] =
                  [pc |-> CASE req.type = "AddEntry" -> "has_access_perm"
                            [] req.type = "AddUser" -> "get_user_list"
                            [] OTHER -> "read",
                   request |-> req]]
    /\ UNCHANGED <<store, board_vars, walk, call, server_vars>>

\* GetEntry and GetUser: the arms of handle_request that write nothing, each
\* taken as one step
WorkerRead ==
    /\ \E w \in Workers : workers[w].pc = "read"
    /\ \E w \in Workers :
           /\ workers[w].pc = "read"
           /\ \E r \in {handle_request(store, workers[w].request)} :
                  /\ store' = r.store
                  /\ workers' = [workers EXCEPT ![w] = Return(w, r.res)]
    /\ UNCHANGED <<board_vars, walk, call, server_vars>>

NextRoot ==
    \/ WorkerRecvAny
    \/ WorkerRead
    \/ WorkerHasAccessPerm
    \/ WorkerWriteEntryExists
    \/ WorkerWriteEntryWrite
    \/ WorkerGetUser
    \/ WorkerWriteUserExists
    \/ WorkerWriteUserWrite
    \/ WorkerGetUserList
    \/ WorkerAddUser
    \/ WorkerSend

SpecRoot == InitWorkers /\ [][NextRoot]_vars

\* C39: the root invariant.  Whatever requests the handlers are given and
\* however their steps interleave, the entry with id ROOT_ID is stored, has
\* parent_id ROOT_ID, is the access group it was, with its name and its two
\* permission sets, and does not list itself among its children.
C39_RootInvariant ==
    /\ ROOT_ID \in DOMAIN store.entries
    /\ \E root \in {get_entry(store, ROOT_ID)} :
           /\ root.ok
           /\ root.val.header_data.parent_id = ROOT_ID
           /\ root.val.entry_data =
                  RootEntry(<<White(<<>>), White(<<>>)>>, <<>>).entry_data
           /\ ~Contains(root.val.header_data.children_ids, ROOT_ID)

\* an AddEntry for the id of the root has been refused while another handler
\* has stored an entry
C39_Witness ==
    /\ \E w \in Workers :
           /\ workers[w].pc = "done"
           /\ workers[w].request.type = "AddEntry"
           /\ workers[w].request.entry_id = ROOT_ID
           /\ workers[w].result = Err("AlreadyExists")
    /\ \E w \in Workers :
           /\ workers[w].pc = "done"
           /\ workers[w].request.type = "AddEntry"
           /\ workers[w].result.ok
====
